---- MODULE Spec2Model ----
(***************************************************************************)
(* Verification model of the hypersdk execution and dissemination core:    *)
(*   - executor.Executor (src/executor/executor.go)                        *)
(*   - vm.TxBlockManager (src/vm/tx_block_manager.go)                      *)
(*   - tstate.TStateView (exercised by src/unnamed/part_003)               *)
(* Each subsystem has its own specification over its own variables; the    *)
(* variables of the other subsystems stay at their initial values.         *)
(***************************************************************************)
EXTENDS Integers, Sequences, FiniteSets, TLC

(***************************************************************************)
(* Bounds of the model.                                                    *)
(***************************************************************************)
\* number of Run calls explored (the tests use New(items, ...) with exactly
\* `items` calls of Run, so the ready channel has capacity MaxTasks)
MaxTasks == 3
\* number of worker goroutines started by New (the `concurrency` argument)
Concurrency == 2

(***************************************************************************)
(* state.Permissions: a bitset over Read, Allocate, Write.                 *)
(***************************************************************************)
Read == 1
Allocate == 2
Write == 4

Has(v, p) == (v \div p) % 2 = 1

\* keys the tasks may declare and the permissions they may declare on them
Keys == {"k1"}
PermChoices == {Read, Allocate, Write}

\* state.Keys values handed to Run: a map from some of the keys to permissions
KeySets == UNION {[S -> PermChoices] : S \in SUBSET Keys}
\* the keys of a task that reads k1
ReadK1 == [k \in {"k1"} |-> Read]
\* the number of tasks of a batch of readers
MaxReaders == 5

\* a New that starts one goroutine more than asked
WorkersOneMore == 1..(Concurrency + 1)

\* New, lines 53-55: the runWorker goroutines
Workers == 1..Concurrency

VARIABLES
    \* ---- executor.Executor ----
    tasks,       \* e.tasks: id -> [dependencies, blocking, executed]
    nodes,       \* e.nodes: key -> [id, isAllocateWrite]
    executable,  \* e.executable: buffered channel of task ids
    execClosed,  \* e.executable has been closed
    stopClosed,  \* e.stop has been closed (e.stopOnce has fired)
    err,         \* e.err
    l,           \* e.l: "free", "run" or the worker holding it
    done,        \* e.done
    completed,   \* e.completed
    wpc,         \* position of each runWorker goroutine
    wtask,       \* the task a worker received (0 while it has none)
    pending,     \* what the holder of e.l has still to send: the rest of the
                 \* range over t.blocking (a worker) or the new task (Run)
    waitpc,      \* position of the Wait call
    waitResult,  \* value returned by Wait
    panicked,    \* the process panicked (send on / close of a closed channel)
    \* ---- observation of the executor (not program state) ----
    declared,    \* keys each task was enqueued with
    started,     \* number of times each task's f was invoked
    returned,    \* number of times each task's f returned
    failed,      \* the tasks whose f returned an error, in the order they failed
    \* ---- vm.TxBlockManager ----
    outstanding,      \* c.outstanding: chunk id -> list of listeners
    fetchedChunks,    \* c.fetchedChunks: chunk id -> bytes
    optimisticChunks, \* c.optimisticChunks: chunk id -> bytes
    counts,           \* c.chunks.counts: chunk id -> number of heights
    heights,          \* c.chunks.heights: height -> set of chunk ids
    requestID,        \* c.requestID
    requests,         \* c.requests: the request ids with a response channel
    nodeChunks,       \* c.nodeChunks: peer -> [Min, Max]
    nodeSet,          \* c.nodeSet: the connected peers
    calls,            \* the RequestChunk calls made so far and their position
    min,              \* c.min
    max,              \* c.max
    clearedChunks,    \* c.clearedChunks: the ids evicted by Accept
    updateSenders,    \* the handlers blocked in their send on c.update
    managerDone,      \* c.done is closed: Run has returned
    \* ---- observation of the chunk manager (not program state) ----
    netPending,       \* app-requests sent and not answered yet
    stuck,            \* request ids whose response handler blocks on its send
    link,             \* per peer: "never" connected, "connected", or
                      \* "disconnected" after a connection
    inbox,            \* what each call's result channel has received
    chunkLast,        \* the last RegisterChunks, SetMin or Accept call
    \* ---- tstate.TState, the parent of the views ----
    changedKeys,        \* the committed changes: key -> Maybe value
    tsOps,              \* the number of committed operations
    \* ---- tstate.TStateView ----
    view,               \* whether NewView has created the view
    scope,              \* key -> permission bits
    scopeStorage,       \* the storage map given at creation: key -> value
    pendingChangedKeys, \* key -> Maybe value ({} is Nothing, {v} is Some(v))
    allocates,          \* key -> chunks allocated
    writes,             \* key -> chunks written
    ops,                \* the operation log of undo records
    canAllocate,        \* the allocation flag
    \* ---- observation of the view (not program state) ----
    tsvLast,            \* the last call on the view and what it returned
    snaps,              \* snaps[j+1]: the view when its log had j records
    \* ---- chain.Processor ----
    pl,                 \* p.l: "free" or "Run" (held by Processor.Run)
    complete,           \* p.complete
    perr,               \* p.err
    input,              \* p.input: the buffered channel of chunks
    inputClosed,        \* p.input has been closed (Done)
    output,             \* p.output
    ctxDone,            \* the context of Run has been cancelled
    ppc,                \* position of Processor.Run
    pchunk,             \* the chunk that Run received
    processErr,         \* the error that process returned for it
    \* ---- observation of the processor (not program state) ----
    supplied,           \* the chunks passed to Add
    resultsLast,        \* what the last call of Results returned
    \* ---- chain.Engine ----
    backlog,            \* e.backlog: the buffered channel of jobs
    parentView,         \* parentView of Run: [height] is its height key
    outputs,            \* e.outputs: height -> output
    epc,                \* position of Engine.Run
    job,                \* the job that Run received
    \* ---- the FilteredChunk loop of Engine.Run ----
    fpc,                \* position in the loop: "idle", "loop" or "built"
    fTxs,               \* chunk.Txs: per transaction whether it has a WarpMessage
    fResults,           \* chunkResult: per transaction [Valid, WarpVerified]
    fj,                 \* the number of results the loop has gone through
    txs,                \* txs: the transactions kept (their indices in chunk.Txs)
    warpResults,        \* warpResults: the set of bits that are set
    warpCount           \* warpCount

execVars == <<tasks, nodes, executable, execClosed, stopClosed, err, l, done,
              completed, wpc, wtask, pending, waitpc, waitResult,
              panicked, declared, started, returned, failed>>

\* what the steps of a fetch leave alone
chunkVars == <<min, max, clearedChunks, updateSenders, managerDone, chunkLast,
              link>>

cdmVars == <<outstanding, fetchedChunks, optimisticChunks, counts, heights,
             requestID, requests, nodeChunks, nodeSet, calls, netPending,
             stuck, inbox, chunkVars>>

\* the parent TState
tstateVars == <<changedKeys, tsOps>>

tsvVars == <<view, scope, scopeStorage, pendingChangedKeys, allocates, writes,
             ops, canAllocate, tsvLast, snaps, tstateVars>>

procVars == <<pl, complete, perr, input, inputClosed, output, ctxDone, ppc,
              pchunk, processErr, supplied, resultsLast>>

engineVars == <<backlog, parentView, outputs, epc, job>>

filterVars == <<fpc, fTxs, fResults, fj, txs, warpResults, warpCount>>

chainVars == <<procVars, engineVars, filterVars>>

vars == <<execVars, cdmVars, tsvVars, chainVars>>

(***************************************************************************)
(* Executor                                                                *)
(***************************************************************************)
NoErr == [kind |-> "nil", id |-> 0]
ErrStopped == [kind |-> "ErrStopped", id |-> 0]
TaskErr(t) == [kind |-> "task", id |-> t]

NumTasks == Cardinality(DOMAIN tasks)
\* capacity of e.executable: New(items, ...) with items = number of Run calls
Items == MaxTasks

IsAllocateWrite(v) == Has(v, Allocate) \/ Has(v, Write)

\* New: empty maps, open channels, `concurrency` workers waiting in select
ExecInit ==
    /\ tasks = <<>>
    /\ nodes = <<>>
    /\ executable = <<>>
    /\ execClosed = FALSE
    /\ stopClosed = FALSE
    /\ err = NoErr
    /\ l = "free"
    /\ done = FALSE
    /\ completed = 0
    /\ wpc = [w \in Workers |-> "select"]
    /\ wtask = [w \in Workers |-> 0]
    /\ pending = {}
    /\ waitpc = "none"
    /\ waitResult = NoErr
    /\ panicked = FALSE
    /\ declared = <<>>
    /\ started = <<>>
    /\ returned = <<>>
    /\ failed = <<>>

\* Run, the switch of lines 138-152: the new access to k is chained behind the
\* live holder lt of k (lt.blocking[id] = t; continue) only for a Read behind
\* a reader; every other case of the switch is commented out
Chained(keys, k) ==
    /\ k \in DOMAIN nodes
    /\ ~tasks[nodes[k].id].executed
    /\ keys[k] = Read
    /\ ~nodes[k].isAllocateWrite

\* a variant of RunDependencies in which a Read chained behind a live reader also counts
\* as a dependency, which serializes readers
RunDependenciesChained(keys) ==
    Cardinality({k \in DOMAIN keys : Chained(keys, k)})

\* Run: the number of dependencies recorded for the new task; no case of the
\* switch that is compiled calls t.dependencies.Add
RunDependencies(keys) == 0

\* Run: e.nodes after the loop over keys
RunNodes(keys, id) ==
    [k \in DOMAIN nodes \cup DOMAIN keys |->
        IF k \in DOMAIN keys /\ ~Chained(keys, k)
        THEN [id |-> id, isAllocateWrite |-> IsAllocateWrite(keys[k])]
        ELSE nodes[k]]

\* Run: e.tasks after the loop over keys
RunTasks(keys, id) ==
    LET holders == {nodes[k].id : k \in {x \in DOMAIN keys : Chained(keys, x)}}
    IN  [i \in DOMAIN tasks \cup {id} |->
            IF i = id
            THEN [dependencies |-> RunDependencies(keys), blocking |-> {},
                  executed |-> FALSE]
            ELSE IF i \in holders
                 THEN [tasks[i] EXCEPT !.blocking = @ \cup {id}]
                 ELSE tasks[i]]

\* Run(keys, f): holds e.l for the whole call; the send of line 166 blocks,
\* with e.l held, while the channel is full
RunCall(keys) ==
    /\ ~panicked
    /\ waitpc = "none"
    /\ l = "free"
    /\ LET id == NumTasks
       IN  /\ tasks' = RunTasks(keys, id)
           /\ nodes' = RunNodes(keys, id)
           /\ declared' = [i \in DOMAIN declared \cup {id} |->
                              IF i = id THEN keys ELSE declared[i]]
           /\ started' = [i \in DOMAIN started \cup {id} |->
                              IF i = id THEN 0 ELSE started[i]]
           /\ returned' = [i \in DOMAIN returned \cup {id} |->
                              IF i = id THEN 0 ELSE returned[i]]
           /\ IF RunDependencies(keys) > 0
              THEN UNCHANGED <<executable, l, pending>>
              ELSE IF Len(executable) < Items
                   THEN /\ executable' = Append(executable, id)
                        /\ UNCHANGED <<l, pending>>
                   ELSE /\ l' = "run"
                        /\ pending' = {id}
                        /\ UNCHANGED executable
    /\ UNCHANGED <<cdmVars, tsvVars, chainVars>>
    /\ UNCHANGED <<execClosed, stopClosed, err, done, completed, wpc, wtask,
                   waitpc, waitResult, panicked, failed>>

\* Run(keys, f), for as many tasks as the bound allows
Run(keys) == NumTasks < MaxTasks /\ RunCall(keys)

\* the workers are identical goroutines: of those waiting in the select, the
\* lowest-numbered one takes the next step
Idle(w) ==
    /\ wpc[w] = "select"
    /\ \A v \in Workers : v < w => wpc[v] # "select"

\* runWorker, select case `t, ok := <-e.executable` with a task received:
\* the worker invokes t.f
WorkerReceive(w) ==
    /\ ~panicked
    /\ Idle(w)
    /\ executable # <<>>
    /\ wtask' = [wtask EXCEPT ![w] = Head(executable)]
    /\ executable' = Tail(executable)
    /\ wpc' = [wpc EXCEPT ![w] = "running"]
    /\ started' = [started EXCEPT ![Head(executable)] = @ + 1]
    /\ UNCHANGED <<cdmVars, tsvVars, chainVars>>
    /\ UNCHANGED <<tasks, nodes, execClosed, stopClosed, err, l, done,
                   completed, pending, waitpc, waitResult, panicked,
                   declared, returned, failed>>

\* runWorker, lines 75-77: the channel is closed and drained, the worker ends
WorkerClosed(w) ==
    /\ ~panicked
    /\ Idle(w)
    /\ executable = <<>>
    /\ execClosed
    /\ wpc' = [wpc EXCEPT ![w] = "exited"]
    /\ wtask' = [wtask EXCEPT ![w] = 0]
    /\ UNCHANGED <<cdmVars, tsvVars, chainVars>>
    /\ UNCHANGED <<tasks, nodes, executable, execClosed, stopClosed, err, l,
                   done, completed, pending, waitpc, waitResult, panicked,
                   declared, started, returned, failed>>

\* runWorker, select case `<-e.stop`: the worker ends
WorkerStop(w) ==
    /\ ~panicked
    /\ Idle(w)
    /\ stopClosed
    /\ wpc' = [wpc EXCEPT ![w] = "exited"]
    /\ wtask' = [wtask EXCEPT ![w] = 0]
    /\ UNCHANGED <<cdmVars, tsvVars, chainVars>>
    /\ UNCHANGED <<tasks, nodes, executable, execClosed, stopClosed, err, l,
                   done, completed, pending, waitpc, waitResult, panicked,
                   declared, started, returned, failed>>

\* a variant of Latch in which e.err is assigned without the sync.Once
LatchOverwrite(v) == v

\* e.stopOnce.Do(func() { e.err = v; close(e.stop) }): the value of e.err
\* after the call
Latch(v) == IF stopClosed THEN err ELSE v

\* runWorker, line 79 with t.f() returning nil: the worker goes on to e.l.Lock
TaskReturnOk(w) ==
    /\ ~panicked
    /\ wpc[w] = "running"
    /\ returned' = [returned EXCEPT ![wtask[w]] = @ + 1]
    /\ wpc' = [wpc EXCEPT ![w] = "lockwait"]
    /\ UNCHANGED <<cdmVars, tsvVars, chainVars>>
    /\ UNCHANGED <<tasks, nodes, executable, execClosed, stopClosed, err, l,
                   done, completed, wtask, pending, waitpc, waitResult,
                   panicked, declared, started, failed>>

\* runWorker, lines 79-85 with t.f() returning an error: latch it, close
\* e.stop and end the worker without marking the task executed
TaskReturnErr(w) ==
    /\ ~panicked
    /\ wpc[w] = "running"
    /\ returned' = [returned EXCEPT ![wtask[w]] = @ + 1]
    /\ failed' = Append(failed, wtask[w])
    /\ err' = Latch(TaskErr(wtask[w]))
    /\ stopClosed' = TRUE
    /\ wpc' = [wpc EXCEPT ![w] = "exited"]
    /\ wtask' = [wtask EXCEPT ![w] = 0]
    /\ UNCHANGED <<cdmVars, tsvVars, chainVars>>
    /\ UNCHANGED <<tasks, nodes, executable, execClosed, l, done, completed,
                   pending, waitpc, waitResult, panicked, declared, started>>

\* runWorker, line 92: `bt.dependencies.Load() > 0 && bt.dependencies.Add(-1) > 0`
StillBlocked(bt) == tasks[bt].dependencies > 0 /\ tasks[bt].dependencies - 1 > 0

\* runWorker, line 92: the counter of bt after the condition was evaluated
DependenciesAfter(bt) ==
    IF tasks[bt].dependencies > 0
    THEN tasks[bt].dependencies - 1
    ELSE tasks[bt].dependencies

\* runWorker, line 95: bt is sent to e.executable
Resend(bt) == ~StillBlocked(bt) /\ ~tasks[bt].executed

\* the entries of t.blocking that the range of lines 90-99 sends
Resends(t) == {bt \in tasks[t].blocking : Resend(bt)}

\* the orders in which a range over a Go map may visit the entries S
Orders(S) ==
    {q \in [1..Cardinality(S) -> S] :
        \A i, j \in 1..Cardinality(S) : i # j => q[i] # q[j]}

\* runWorker, line 103: whether close(e.executable) runs after e.completed++
ClosesOnFinish == done /\ completed + 1 = NumTasks

\* runWorker, lines 100-102: t.blocking = nil, t.executed = true
Executed(ts, t) == [ts EXCEPT ![t].blocking = {}, ![t].executed = TRUE]

\* runWorker, lines 89-109 when no send of the range has to wait: Lock, the
\* range over t.blocking, the bookkeeping and Unlock. Nothing that needs e.l
\* can run in between and a receive by another worker only adds room, so the
\* section is one step. A send on the closed channel, or closing it twice,
\* panics.
WorkerComplete(w) ==
    /\ ~panicked
    /\ wpc[w] = "lockwait"
    /\ l = "free"
    /\ execClosed \/ Len(executable) + Cardinality(Resends(wtask[w])) <= Items
    /\ IF Resends(wtask[w]) # {} /\ execClosed
       THEN /\ panicked' = TRUE
            /\ UNCHANGED <<tasks, executable, execClosed, completed, wpc,
                           wtask>>
       ELSE /\ \E q \in Orders(Resends(wtask[w])) :
                  executable' = executable \o q
            /\ tasks' = Executed(
                  [i \in DOMAIN tasks |->
                      IF i \in tasks[wtask[w]].blocking
                      THEN [tasks[i] EXCEPT
                               !.dependencies = DependenciesAfter(i)]
                      ELSE tasks[i]], wtask[w])
            /\ completed' = completed + 1
            /\ IF ClosesOnFinish
               THEN IF execClosed
                    THEN panicked' = TRUE /\ UNCHANGED execClosed
                    ELSE execClosed' = TRUE /\ UNCHANGED panicked
               ELSE UNCHANGED <<execClosed, panicked>>
            /\ wpc' = [wpc EXCEPT ![w] = "select"]
            /\ wtask' = [wtask EXCEPT ![w] = 0]
    /\ UNCHANGED <<cdmVars, tsvVars, chainVars>>
    /\ UNCHANGED <<nodes, stopClosed, err, l, done, pending, waitpc,
                   waitResult, declared, started, returned, failed>>

\* runWorker, line 89 when the open channel lacks room for the entries to
\* send: e.l.Lock(), then the range over t.blocking goes entry by entry
WorkerLock(w) ==
    /\ ~panicked
    /\ wpc[w] = "lockwait"
    /\ l = "free"
    /\ ~execClosed
    /\ Len(executable) + Cardinality(Resends(wtask[w])) > Items
    /\ l' = "worker"
    /\ wpc' = [wpc EXCEPT ![w] = "notify"]
    /\ pending' = tasks[wtask[w]].blocking
    /\ UNCHANGED <<cdmVars, tsvVars, chainVars>>
    /\ UNCHANGED <<tasks, nodes, executable, execClosed, stopClosed, err,
                   done, completed, wtask, waitpc, waitResult, panicked,
                   declared, started, returned, failed>>

\* the worker that holds e.l
Holder == CHOOSE w \in Workers : wpc[w] = "notify"

\* A send on e.executable by the holder of e.l: one iteration of the range
\* of lines 90-99 (in map order, so any entry may come next), or the send of
\* line 166 of a Run call. The send waits while the channel is full (the
\* channel is open: closing it needs e.l). After its last send the worker
\* does the bookkeeping of lines 100-109; either holder then unlocks.
LockedSend(bt) ==
    /\ ~panicked
    /\ l # "free"
    /\ bt \in pending
    /\ Resend(bt) => Len(executable) < Items
    /\ pending' = pending \ {bt}
    /\ executable' = IF Resend(bt) THEN Append(executable, bt) ELSE executable
    /\ LET ts == [tasks EXCEPT ![bt].dependencies = DependenciesAfter(bt)]
       IN  IF pending = {bt}
           THEN /\ l' = "free"
                /\ IF l = "run"
                   THEN /\ tasks' = ts
                        /\ UNCHANGED <<completed, execClosed, wpc, wtask>>
                   ELSE /\ tasks' = Executed(ts, wtask[Holder])
                        /\ completed' = completed + 1
                        /\ execClosed' = ClosesOnFinish
                        /\ wpc' = [wpc EXCEPT ![Holder] = "select"]
                        /\ wtask' = [wtask EXCEPT ![Holder] = 0]
           ELSE /\ tasks' = ts
                /\ UNCHANGED <<l, completed, execClosed, wpc, wtask>>
    /\ UNCHANGED <<cdmVars, tsvVars, chainVars>>
    /\ UNCHANGED <<nodes, stopClosed, err, done, waitpc, waitResult,
                   panicked, declared, started, returned, failed>>

\* Stop: latch ErrStopped and close e.stop, once
Stop ==
    /\ ~panicked
    /\ waitpc # "returned"
    /\ err' = Latch(ErrStopped)
    /\ stopClosed' = TRUE
    /\ UNCHANGED <<cdmVars, tsvVars, chainVars>>
    /\ UNCHANGED <<tasks, nodes, executable, execClosed, l, done, completed,
                   wpc, wtask, pending, waitpc, waitResult, panicked,
                   declared, started, returned, failed>>

\* Wait is called (after the last Run has returned); it first has to take e.l
WaitCall ==
    /\ ~panicked
    /\ waitpc = "none"
    /\ l # "run"
    /\ waitpc' = "locking"
    /\ UNCHANGED <<cdmVars, tsvVars, chainVars>>
    /\ UNCHANGED <<tasks, nodes, executable, execClosed, stopClosed, err, l,
                   done, completed, wpc, wtask, pending, waitResult,
                   panicked, declared, started, returned, failed>>

\* Wait, lines 183-190: under e.l, set e.done and close the channel when
\* every task is already counted
WaitLocked ==
    /\ ~panicked
    /\ waitpc = "locking"
    /\ l = "free"
    /\ done' = TRUE
    /\ execClosed' = (completed = NumTasks)
    /\ waitpc' = "joining"
    /\ UNCHANGED <<cdmVars, tsvVars, chainVars>>
    /\ UNCHANGED <<tasks, nodes, executable, stopClosed, err, l, completed,
                   wpc, wtask, pending, waitResult, panicked, declared,
                   started, returned, failed>>

\* a variant of WorkersDone in which the wait group counts one worker only
OneWorkerDone == \E w \in Workers : wpc[w] = "exited"

\* e.wg: New adds `concurrency`, every runWorker defers e.wg.Done(), so
\* e.wg.Wait() returns once every worker has ended
WorkersDone == \A w \in Workers : wpc[w] = "exited"

\* Wait, lines 191-192: e.wg.Wait() returns and Wait returns e.err
WaitReturn ==
    /\ ~panicked
    /\ waitpc = "joining"
    /\ WorkersDone
    /\ waitResult' = err
    /\ waitpc' = "returned"
    /\ UNCHANGED <<cdmVars, tsvVars, chainVars>>
    /\ UNCHANGED <<tasks, nodes, executable, execClosed, stopClosed, err, l,
                   done, completed, wpc, wtask, pending, panicked, declared,
                   started, returned, failed>>

\* the steps of the executor's own goroutines and of a pending Run or Wait
ExecProgress ==
    \/ WaitLocked
    \/ WaitReturn
    \/ \E bt \in DOMAIN tasks : LockedSend(bt)
    \/ \E w \in Workers :
        \/ WorkerReceive(w)
        \/ WorkerClosed(w)
        \/ WorkerStop(w)
        \/ TaskReturnOk(w)
        \/ WorkerComplete(w)
        \/ WorkerLock(w)

\* a batch of MaxReaders tasks that all read k1, then Wait: no task fails and
\* Stop is not called
ReadersNext ==
    \/ NumTasks < MaxReaders /\ RunCall(ReadK1)
    \/ WaitCall
    \/ WaitLocked
    \/ WaitReturn
    \/ \E bt \in DOMAIN tasks : LockedSend(bt)
    \/ \E w \in Workers : WorkerReceive(w)
    \/ \E w \in Workers : WorkerClosed(w)
    \/ \E w \in Workers : TaskReturnOk(w)
    \/ \E w \in Workers : WorkerComplete(w)
    \/ \E w \in Workers : WorkerLock(w)

ExecNext ==
    \/ \E keys \in KeySets : Run(keys)
    \/ Stop
    \/ WaitCall
    \/ \E w \in Workers : TaskReturnErr(w)
    \/ ExecProgress

(***************************************************************************)
(* Properties of the executor                                              *)
(***************************************************************************)
Enqueued == DOMAIN tasks

Accesses(t, k) == k \in DOMAIN declared[t]
WritesKey(t, k) == Accesses(t, k) /\ IsAllocateWrite(declared[t][k])
ReadsKey(t, k) == Accesses(t, k) /\ declared[t][k] = Read

Range(q) == {q[i] : i \in DOMAIN q}

\* f of task t is executing on some worker
Running(t) == \E w \in Workers : wpc[w] = "running" /\ wtask[w] = t

\* C1: a task that accesses key k never starts before an earlier-enqueued
\* task that declared Allocate/Write on k has returned.
C1_WriteBarrier ==
    \A a, b \in Enqueued : \A k \in Keys :
        (a < b /\ WritesKey(a, k) /\ Accesses(b, k) /\ started[b] > 0)
            => returned[a] > 0

\* C4: tasks that all declare Write on the same key run one at a time in
\* enqueue order: task j has not started while an earlier one has not returned.
C4_WriterSerialization ==
    \A i, j \in Enqueued : \A k \in Keys :
        (i < j /\ Accesses(i, k) /\ Has(declared[i][k], Write)
               /\ Accesses(j, k) /\ Has(declared[j][k], Write)
               /\ started[j] > 0)
            => (returned[i] > 0 /\ ~Running(i))

\* no task enqueued strictly between r and w declares Allocate/Write on k
NoWriterBetween(r, w, k) ==
    \A x \in Enqueued : (r < x /\ x < w) => ~WritesKey(x, k)

\* C5: a writer of k enqueued after a group of readers of k (no writer of k
\* in between) does not start until every one of those readers has returned.
C5_WriterAfterReaders ==
    \A r, w \in Enqueued : \A k \in Keys :
        (r < w /\ ReadsKey(r, k) /\ WritesKey(w, k) /\ NoWriterBetween(r, w, k)
               /\ started[w] > 0)
            => returned[r] > 0

\* task t was enqueued but is held back: never started, not in the ready
\* channel and not being sent to it
HeldBack(t) ==
    /\ started[t] = 0
    /\ t \notin Range(executable)
    /\ ~(l = "run" /\ t \in pending)

\* t declares nothing but Read
OnlyReads(t) == \A k \in DOMAIN declared[t] : declared[t][k] = Read

\* C6: readers of the same key are not ordered against each other: a task
\* that only reads is held back only while an earlier writer of one of its
\* keys is live, never because of earlier readers.
C6_ReadersNotOrdered ==
    \A j \in Enqueued :
        (OnlyReads(j) /\ HeldBack(j))
            => \E x \in Enqueued : \E k \in DOMAIN declared[j] :
                  x < j /\ WritesKey(x, k) /\ ~tasks[x].executed

\* C6 witness: two readers of the same key, no writer between them, both
\* executing at the same time.
C6_Witness ==
    \E i, j \in Enqueued : \E k \in Keys :
        /\ i < j
        /\ ReadsKey(i, k) /\ ReadsKey(j, k)
        /\ NoWriterBetween(i, j, k)
        /\ Running(i) /\ Running(j)

\* C7: when Wait has returned nil, every enqueued task has run and returned,
\* none is queued and none is executing.
C7_WaitSafety ==
    (waitpc = "returned" /\ waitResult = NoErr)
        => /\ \A t \in Enqueued : started[t] > 0 /\ returned[t] = started[t]
           /\ executable = <<>>
           /\ \A t \in Enqueued : tasks[t].dependencies = 0

\* C7 witness: Wait returned nil after tasks were enqueued and ran.
C7_Witness ==
    /\ waitpc = "returned"
    /\ waitResult = NoErr
    /\ NumTasks = MaxTasks

\* Wait has been called and has not returned
Waiting == waitpc \in {"locking", "joining"}

\* C8: with no task error and no Stop, a Wait that has not returned yet can
\* always make progress (some worker, or Wait itself, has a step to take).
C8_WaitReturns ==
    (Waiting /\ err = NoErr) => ENABLED ExecProgress

\* C9: the executor's error is latched once, and Wait returns the error of
\* the first task that failed unless Stop had latched ErrStopped before it.
C9_ErrorLatchedOnce == [][err # NoErr => err' = err]_vars

C9_WaitReturnsFirst ==
    (waitpc = "returned" /\ failed # <<>> /\ waitResult # ErrStopped)
        => waitResult = TaskErr(Head(failed))

C9_FirstErrorLatch == C9_ErrorLatchedOnce /\ []C9_WaitReturnsFirst

\* C9 witness: two tasks failed and Wait returned the error of the first.
C9_Witness ==
    /\ waitpc = "returned"
    /\ Len(failed) > 1
    /\ failed[2] # failed[1]
    /\ waitResult = TaskErr(failed[1])

\* C10: after a Stop that came before any task error, a Wait that has not
\* returned yet can always make progress, and when it returns it returns
\* ErrStopped.
C10_StopReturns ==
    /\ (Waiting /\ err = ErrStopped) => ENABLED ExecProgress
    /\ (waitpc = "returned" /\ err = ErrStopped) => waitResult = ErrStopped

(***************************************************************************)
(* Chunk manager (vm.TxBlockManager): fetching chunks                      *)
(***************************************************************************)
\* number of RequestChunk calls explored
MaxCalls == 2
\* number of request ids handed out
MaxRequests == 2

maxChunkRetries == 20

\* the chunk ids that are requested
ChunkIDs == {"X"}
\* chunk bytes, and the empty payload a peer answers with for "not found"
ChunkBytes == {"bX", "bY"}
EmptyBytes == ""
\* utils.ToID: the hash of chunk bytes
ToID(b) == IF b = "bX" THEN "X" ELSE IF b = "bY" THEN "Y" ELSE "Z"

Peers == {"p1"}
\* the peers that connect, gossip and disconnect
PeerIDs == {"p1", "p2"}
\* the windows these peers may gossip
PeerWindows == {[Min |-> 1, Max |-> 1], [Min |-> 2, Max |-> 2]}
EmptyNodeID == "none"
\* the *uint64 height argument: {} is nil
HeightChoices == {{}, {1}}
\* the windows a peer may gossip
Windows == {[Min |-> 1, Max |-> 1]}

NilErr == "nil"
ErrCancelled == "context canceled"
ErrExhausted == "exhausted retries"

\* NewTxBlockManager
CdmInit ==
    /\ outstanding = <<>>
    /\ fetchedChunks = <<>>
    /\ optimisticChunks = <<>>
    /\ counts = <<>>
    /\ heights = <<>>
    /\ requestID = 0
    /\ requests = {}
    /\ nodeChunks = <<>>
    /\ nodeSet = {}
    /\ calls = <<>>
    /\ netPending = {}
    /\ stuck = {}
    /\ inbox = <<>>
    /\ min = 0
    /\ max = 0
    /\ clearedChunks = {}
    /\ updateSenders = 0
    /\ managerDone = FALSE
    /\ chunkLast = [op |-> "none"]
    /\ link = [p \in PeerIDs |-> "never"]

\* a map with key k set to v
Put(m, k, v) == [x \in DOMAIN m \cup {k} |-> IF x = k THEN v ELSE m[x]]
\* a map with key k deleted
Delete(m, k) == [x \in DOMAIN m \ {k} |-> m[x]]

\* an Add that counts a pair that is registered already once more
ChunkMapAddAlways(cm, h, id) ==
    [counts |-> Put(cm.counts, id,
                    (IF id \in DOMAIN cm.counts THEN cm.counts[id] ELSE 0) + 1),
     heights |-> Put(cm.heights, h,
                     IF h \in DOMAIN cm.heights
                     THEN cm.heights[h] \cup {id} ELSE {id})]

\* ChunkMap.Add(height, chunkID) on cm = [counts, heights]: nothing changes
\* when the chunk is registered at the height, else its count goes up and it
\* joins the bucket of the height, which is created if missing
ChunkMapAdd(cm, h, id) ==
    IF h \in DOMAIN cm.heights /\ id \in cm.heights[h]
    THEN cm
    ELSE [counts |-> Put(cm.counts, id,
                         (IF id \in DOMAIN cm.counts THEN cm.counts[id]
                          ELSE 0) + 1),
          heights |-> Put(cm.heights, h,
                          IF h \in DOMAIN cm.heights
                          THEN cm.heights[h] \cup {id} ELSE {id})]

\* ChunkMap.Add: c.chunks.counts afterwards
AddCounts(h, id) ==
    ChunkMapAdd([counts |-> counts, heights |-> heights], h, id).counts

\* ChunkMap.Add: c.chunks.heights afterwards
AddHeights(h, id) ==
    ChunkMapAdd([counts |-> counts, heights |-> heights], h, id).heights

\* a fetch that never registers the chunk at its height
AddIfHeightNever(height, id) == UNCHANGED <<counts, heights>>

\* `if height != nil { c.chunks.Add(*height, chunkID) }`
AddIfHeight(height, id) ==
    IF height = {}
    THEN UNCHANGED <<counts, heights>>
    ELSE /\ counts' = AddCounts(CHOOSE h \in height : TRUE, id)
         /\ heights' = AddHeights(CHOOSE h \in height : TRUE, id)

\* a notification that reaches the listener that created the entry only
NotifiedFirst(id, chunk, e) ==
    [c \in DOMAIN inbox |->
        IF id \in DOMAIN outstanding /\ outstanding[id][1] = c
        THEN Append(inbox[c], [chunk |-> chunk, err |-> e])
        ELSE inbox[c]]

\* sendToOutstandingListeners: the result channels after every non-nil
\* listener of the entry (if there is one) was sent the result
Notified(id, chunk, e) ==
    [c \in DOMAIN inbox |->
        IF id \in DOMAIN outstanding
           /\ \E n \in DOMAIN outstanding[id] : outstanding[id][n] = c
        THEN Append(inbox[c], [chunk |-> chunk, err |-> e])
        ELSE inbox[c]]

\* sendToOutstandingListeners(chunkID, chunk, err)
SendToOutstandingListeners(id, chunk, e) ==
    /\ outstanding' = Delete(outstanding, id)
    /\ inbox' = Notified(id, chunk, e)

\* the position of a call that has returned
Returned(c) == [calls[c] EXCEPT !.pc = "done", !.i = 0, !.peer = EmptyNodeID,
                                !.rid = 0, !.chunk = EmptyBytes,
                                !.height = {}, !.hint = EmptyNodeID,
                                !.cancelled = FALSE]

\* a call that never attaches to the fetch that is outstanding
JoinsNever(id) == FALSE

\* RequestChunk, lines 322-333: whether the call finds a fetch of the id
\* outstanding and only attaches its listener
Joins(id) == id \in DOMAIN outstanding

\* RequestChunk(ctx, height, hint, chunkID, ch), lines 322-333: register the
\* listener; the call that finds an entry returns, the one that creates the
\* entry goes on to fetch. listener is the call itself, or 0 for a nil channel
RequestChunk(id, height, hint, listener) ==
    /\ Len(calls) < MaxCalls
    /\ LET c == Len(calls) + 1
           ch == IF listener THEN c ELSE 0
       IN  /\ outstanding' =
                 IF id \in DOMAIN outstanding
                 THEN Put(outstanding, id, Append(outstanding[id], ch))
                 ELSE Put(outstanding, id, <<ch>>)
           /\ calls' = Append(calls,
                 [pc |-> IF Joins(id) THEN "done" ELSE "checkFetched",
                  joined |-> id \in DOMAIN outstanding, id |-> id,
                  height |-> IF Joins(id) THEN {} ELSE height,
                  hint |-> IF Joins(id) THEN EmptyNodeID ELSE hint, i |-> 0,
                  peer |-> EmptyNodeID, rid |-> 0, chunk |-> EmptyBytes,
                  cancelled |-> FALSE, sent |-> FALSE, ch |-> listener])
           /\ inbox' = Append(inbox, <<>>)
    /\ UNCHANGED <<execVars, tsvVars, chainVars, chunkVars>>
    /\ UNCHANGED <<fetchedChunks, optimisticChunks, counts, heights,
                   requestID, requests, nodeChunks, nodeSet, netPending,
                   stuck>>

\* a lookup that never finds the chunk
FetchedHitNever(c) == FALSE

\* RequestChunk, line 337: `chunk, ok := c.fetchedChunks[chunkID]`
FetchedHit(c) == calls[c].id \in DOMAIN fetchedChunks

\* RequestChunk, lines 335-345: serve from c.fetchedChunks
CheckFetched(c) ==
    /\ calls[c].pc = "checkFetched"
    /\ IF FetchedHit(c)
       THEN /\ AddIfHeight(calls[c].height, calls[c].id)
            /\ SendToOutstandingListeners(calls[c].id,
                                          fetchedChunks[calls[c].id], NilErr)
            /\ calls' = [calls EXCEPT ![c] = Returned(c)]
       ELSE /\ calls' = [calls EXCEPT ![c].pc = "checkOptimistic"]
            /\ UNCHANGED <<counts, heights, outstanding, inbox>>
    /\ UNCHANGED <<execVars, tsvVars, chainVars, chunkVars>>
    /\ UNCHANGED <<fetchedChunks, optimisticChunks, requestID, requests,
                   nodeChunks, nodeSet, netPending, stuck>>

\* RequestChunk, line 348: c.optimisticChunks.Get
CheckOptimistic(c) ==
    /\ calls[c].pc = "checkOptimistic"
    /\ calls' = IF calls[c].id \in DOMAIN optimisticChunks
                THEN [calls EXCEPT ![c].pc = "optimisticHit",
                                   ![c].chunk = optimisticChunks[calls[c].id]]
                ELSE [calls EXCEPT ![c].pc = "loop"]
    /\ UNCHANGED <<execVars, tsvVars, chainVars, chunkVars>>
    /\ UNCHANGED <<outstanding, fetchedChunks, optimisticChunks, counts,
                   heights, requestID, requests, nodeChunks, nodeSet,
                   netPending, stuck, inbox>>

\* RequestChunk, lines 349-356: promote the optimistic chunk when a height
\* was given, and notify
OptimisticHit(c) ==
    /\ calls[c].pc = "optimisticHit"
    /\ fetchedChunks' = IF calls[c].height = {}
                        THEN fetchedChunks
                        ELSE Put(fetchedChunks, calls[c].id, calls[c].chunk)
    /\ AddIfHeight(calls[c].height, calls[c].id)
    /\ SendToOutstandingListeners(calls[c].id, calls[c].chunk, NilErr)
    /\ calls' = [calls EXCEPT ![c] = Returned(c)]
    /\ UNCHANGED <<execVars, tsvVars, chainVars, chunkVars>>
    /\ UNCHANGED <<optimisticChunks, requestID, requests, nodeChunks,
                   nodeSet, netPending, stuck>>

\* a loop that makes one attempt more
RetryingOneMore(c) == calls[c].i <= maxChunkRetries

\* RequestChunk, line 360: the condition of the retry loop
Retrying(c) == calls[c].i < maxChunkRetries

\* RequestChunk, lines 361-364: the context is done at the top of the loop
LoopCancelled(c) ==
    /\ calls[c].pc = "loop"
    /\ Retrying(c)
    /\ calls[c].cancelled
    /\ SendToOutstandingListeners(calls[c].id, EmptyBytes, ErrCancelled)
    /\ calls' = [calls EXCEPT ![c] = Returned(c)]
    /\ UNCHANGED <<execVars, tsvVars, chainVars, chunkVars>>
    /\ UNCHANGED <<fetchedChunks, optimisticChunks, counts, heights,
                   requestID, requests, nodeChunks, nodeSet, netPending,
                   stuck>>

\* RequestChunk, line 367: the attempt goes to the hint
UsesHint(c) == calls[c].hint # EmptyNodeID /\ calls[c].i <= 1

\* RequestChunk, lines 374-384: the peers whose window covers the height
\* (NodeChunks has no Unprocessed set: the test of line 380 adds nobody)
PossibleRecipients(c) ==
    {n \in DOMAIN nodeChunks :
        \E h \in calls[c].height :
            h >= nodeChunks[n].Min /\ h <= nodeChunks[n].Max}

\* RequestChunk, lines 366-404: the peers the attempt may be addressed to
Recipients(c) ==
    IF UsesHint(c) THEN {calls[c].hint}
    ELSE IF PossibleRecipients(c) # {} THEN PossibleRecipients(c)
    ELSE DOMAIN nodeChunks

\* RequestChunk, lines 387-391: no recipient, sleep and retry
LoopSleep(c) ==
    /\ calls[c].pc = "loop"
    /\ Retrying(c)
    /\ ~calls[c].cancelled
    /\ Recipients(c) = {}
    /\ calls' = [calls EXCEPT ![c].i = @ + 1]
    /\ UNCHANGED <<execVars, tsvVars, chainVars, chunkVars>>
    /\ UNCHANGED <<outstanding, fetchedChunks, optimisticChunks, counts,
                   heights, requestID, requests, nodeChunks, nodeSet,
                   netPending, stuck, inbox>>

\* RequestChunk, line 407, and requestChunkNodeID, lines 430-444: register a
\* request id and send the app-request to the peer; sendOk is whether
\* SendAppRequest succeeds
LoopSend(c, peer, sendOk) ==
    /\ calls[c].pc = "loop"
    /\ Retrying(c)
    /\ ~calls[c].cancelled
    /\ peer \in Recipients(c)
    /\ requestID < MaxRequests
    /\ requestID' = requestID + 1
    /\ requests' = requests \cup {requestID}
    /\ IF sendOk
       THEN /\ calls' = [calls EXCEPT ![c].pc = "await", ![c].peer = peer,
                                      ![c].rid = requestID, ![c].sent = TRUE]
            /\ netPending' = netPending \cup {requestID}
       ELSE /\ calls' = [calls EXCEPT ![c].i = @ + 1]
            /\ UNCHANGED netPending
    /\ UNCHANGED <<execVars, tsvVars, chainVars, chunkVars>>
    /\ UNCHANGED <<outstanding, fetchedChunks, optimisticChunks, counts,
                   heights, nodeChunks, nodeSet, stuck, inbox>>

\* requestChunkNodeID, lines 450-451, and RequestChunk, lines 408-410: the
\* context is done while waiting for the response
AwaitCancelled(c) ==
    /\ calls[c].pc = "await"
    /\ calls[c].cancelled
    /\ calls' = [calls EXCEPT ![c].pc = "loop", ![c].i = @ + 1,
                              ![c].peer = EmptyNodeID, ![c].rid = 0]
    /\ UNCHANGED <<execVars, tsvVars, chainVars, chunkVars>>
    /\ UNCHANGED <<outstanding, fetchedChunks, optimisticChunks, counts,
                   heights, requestID, requests, nodeChunks, nodeSet,
                   netPending, stuck, inbox>>

\* a check of the response that does not compare its hash with the id
ValidResponseNonEmpty(id, msg) == msg # EmptyBytes

\* requestChunkNodeID, lines 453-464: the response is the requested chunk
ValidResponse(id, msg) == msg # EmptyBytes /\ ToID(msg) = id

\* requestChunkNodeID, line 449 onwards, and RequestChunk, lines 408-422:
\* call c receives msg on its response channel
Receive(c, msg) ==
    IF ValidResponse(calls[c].id, msg)
    THEN /\ IF calls[c].height = {}
            THEN /\ optimisticChunks' = Put(optimisticChunks, calls[c].id, msg)
                 /\ UNCHANGED fetchedChunks
            ELSE /\ fetchedChunks' = Put(fetchedChunks, calls[c].id, msg)
                 /\ UNCHANGED optimisticChunks
         /\ AddIfHeight(calls[c].height, calls[c].id)
         /\ SendToOutstandingListeners(calls[c].id, msg, NilErr)
         /\ calls' = [calls EXCEPT ![c] = Returned(c)]
    ELSE /\ calls' = [calls EXCEPT ![c].pc = "loop", ![c].i = @ + 1,
                                   ![c].peer = EmptyNodeID, ![c].rid = 0]
         /\ UNCHANGED <<fetchedChunks, optimisticChunks, counts, heights,
                        outstanding, inbox>>

\* the calls waiting on the response channel of request rid
Awaiting(rid) ==
    {c \in DOMAIN calls : calls[c].pc = "await" /\ calls[c].rid = rid}

\* HandleResponse(nodeID, requestID, msg) and HandleRequestFailed(requestID)
\* (msg empty) for a request that was sent: the id is removed from
\* c.requests and msg is sent on the unbuffered response channel; the send
\* completes when the call is still receiving and blocks for ever otherwise
HandleResponse(rid, msg) ==
    /\ rid \in netPending
    /\ rid \in requests
    /\ netPending' = netPending \ {rid}
    /\ requests' = requests \ {rid}
    /\ IF Awaiting(rid) # {}
       THEN /\ Receive(CHOOSE c \in Awaiting(rid) : TRUE, msg)
            /\ UNCHANGED stuck
       ELSE /\ stuck' = stuck \cup {rid}
            /\ UNCHANGED <<calls, fetchedChunks, optimisticChunks, counts,
                           heights, outstanding, inbox>>
    /\ UNCHANGED <<execVars, tsvVars, chainVars, chunkVars>>
    /\ UNCHANGED <<requestID, nodeChunks, nodeSet>>

\* RequestChunk, line 424: every attempt was used
Exhausted(c) ==
    /\ calls[c].pc = "loop"
    /\ ~Retrying(c)
    /\ SendToOutstandingListeners(calls[c].id, EmptyBytes, ErrExhausted)
    /\ calls' = [calls EXCEPT ![c] = Returned(c)]
    /\ UNCHANGED <<execVars, tsvVars, chainVars, chunkVars>>
    /\ UNCHANGED <<fetchedChunks, optimisticChunks, counts, heights,
                   requestID, requests, nodeChunks, nodeSet, netPending,
                   stuck>>

\* the context of call c is cancelled by its owner; RequestChunk looks at the
\* context only in its retry loop, so a cancellation before the loop is the
\* same as one on entering it, and one after the last attempt is not seen
Cancel(c) ==
    /\ calls[c].pc = "await" \/ (calls[c].pc = "loop" /\ Retrying(c))
    /\ ~calls[c].cancelled
    /\ calls' = [calls EXCEPT ![c].cancelled = TRUE]
    /\ UNCHANGED <<execVars, tsvVars, chainVars, chunkVars>>
    /\ UNCHANGED <<outstanding, fetchedChunks, optimisticChunks, counts,
                   heights, requestID, requests, nodeChunks, nodeSet,
                   netPending, stuck, inbox>>

\* HandleConnect; sendOk is whether SendAppGossipSpecific succeeds. Only
\* c.nodeSet changes, which no step of a fetch reads: the handler is not part
\* of the fetch specification but of the one of the peers
HandleConnect(p, sendOk) ==
    /\ nodeSet' = IF sendOk THEN nodeSet \cup {p} ELSE nodeSet
    /\ link' = [link EXCEPT ![p] = "connected"]
    /\ UNCHANGED <<execVars, tsvVars, chainVars>>
    /\ UNCHANGED <<min, max, clearedChunks, updateSenders, managerDone,
                   chunkLast>>
    /\ UNCHANGED <<outstanding, fetchedChunks, optimisticChunks, counts,
                   heights, requestID, requests, nodeChunks, calls,
                   netPending, stuck, inbox>>

\* HandleDisconnect
HandleDisconnect(p) ==
    /\ nodeChunks' = Delete(nodeChunks, p)
    /\ nodeSet' = nodeSet \ {p}
    /\ link' = [link EXCEPT ![p] = IF @ = "connected" THEN "disconnected"
                                   ELSE @]
    /\ UNCHANGED <<execVars, tsvVars, chainVars>>
    /\ UNCHANGED <<min, max, clearedChunks, updateSenders, managerDone,
                   chunkLast>>
    /\ UNCHANGED <<outstanding, fetchedChunks, optimisticChunks, counts,
                   heights, requestID, requests, calls, netPending, stuck,
                   inbox>>

\* HandleAppGossip, message type 0: the peer's window is recorded
HandleAppGossip(p, nc) ==
    /\ nodeChunks' = Put(nodeChunks, p, nc)
    /\ UNCHANGED <<execVars, tsvVars, chainVars, chunkVars>>
    /\ UNCHANGED <<outstanding, fetchedChunks, optimisticChunks, counts,
                   heights, requestID, requests, nodeSet, calls, netPending,
                   stuck, inbox>>

(***************************************************************************)
(* Chunk manager: retention of chunks by height                            *)
(***************************************************************************)
\* the heights that chunks are registered at
Heights == {1, 2}
\* number of handlers that may wait on c.update at once
MaxSenders == 1
\* number of fetches that run beside the retention handlers
MaxChunkCalls == 1

\* the chunks handed to RegisterChunks
RegisterBytes == {"bX", "bY", "bZ"}

\* the ids that some height bucket of hs contains
Referenced(hs) == UNION {hs[h] : h \in DOMAIN hs}

\* the number of height buckets of hs that contain id
References(hs, id) == Cardinality({h \in DOMAIN hs : id \in hs[h]})

\* RegisterChunks, lines 224-227: the map after fetchedChunks[id] = chunk
\* for every chunk of the call
Stored(m, chunks) ==
    [id \in DOMAIN m \cup {ToID(b) : b \in chunks} |->
        IF \E b \in chunks : ToID(b) = id
        THEN CHOOSE b \in chunks : ToID(b) = id
        ELSE m[id]]

\* RegisterChunks, lines 224-227: c.chunks.Add for every chunk of the call;
\* cm is [counts, heights]
RECURSIVE AddAll(_, _, _)
AddAll(cm, h, idset) ==
    IF idset = {} THEN cm
    ELSE LET id == CHOOSE x \in idset : TRUE
         IN  AddAll(ChunkMapAdd(cm, h, id), h, idset \ {id})

\* c.bh.First(): the lowest height that has a bucket
First(hs) == CHOOSE h \in DOMAIN hs : \A g \in DOMAIN hs : h <= g

\* ChunkMap.SetMin, line 111: count-- for a chunk of the popped bucket
Decremented(cs, id) == (IF id \in DOMAIN cs THEN cs[id] ELSE 0) - 1

\* a variant in which every chunk of a popped bucket is evicted
GoneAll(cs, items) == items

\* ChunkMap.SetMin, lines 112-114: the chunks of the popped bucket whose
\* count reaches 0
Gone(cs, items) == {id \in items : Decremented(cs, id) = 0}

\* ChunkMap.SetMin, lines 108-120: the bucket b is popped; cm is
\* [counts, heights, evicted]. The order in which the chunks of one bucket
\* are appended to evicted does not change what Accept does with them
PopBucket(cm, b) ==
    [counts |-> [id \in (DOMAIN cm.counts \cup cm.heights[b])
                           \ Gone(cm.counts, cm.heights[b]) |->
                    IF id \in cm.heights[b] THEN Decremented(cm.counts, id)
                    ELSE cm.counts[id]],
     heights |-> Delete(cm.heights, b),
     evicted |-> cm.evicted \o
                 (CHOOSE q \in Orders(Gone(cm.counts, cm.heights[b])) : TRUE)]

\* ChunkMap.SetMin(h): buckets are popped while the lowest is below h
RECURSIVE ChunkMapSetMin(_, _)
ChunkMapSetMin(cm, h) ==
    IF DOMAIN cm.heights = {} \/ First(cm.heights) >= h THEN cm
    ELSE ChunkMapSetMin(PopBucket(cm, First(cm.heights)), h)

\* a map without the keys in S
Without(m, S) == [x \in DOMAIN m \ S |-> m[x]]

\* the send on c.update with which a handler ends: the handler returns when
\* the main loop receives
SignalUpdate ==
    /\ updateSenders < MaxSenders
    /\ updateSenders' = updateSenders + 1

\* RegisterChunks(ctx, height, chunks)
RegisterChunks(h, chunks) ==
    /\ SignalUpdate
    /\ fetchedChunks' = Stored(fetchedChunks, chunks)
    /\ counts' = AddAll([counts |-> counts, heights |-> heights], h,
                        {ToID(b) : b \in chunks}).counts
    /\ heights' = AddAll([counts |-> counts, heights |-> heights], h,
                         {ToID(b) : b \in chunks}).heights
    /\ chunkLast' = [op |-> "RegisterChunks"]
    /\ UNCHANGED <<execVars, tsvVars, chainVars, link, managerDone>>
    /\ UNCHANGED <<outstanding, optimisticChunks, requestID, requests,
                   nodeChunks, nodeSet, calls, netPending, stuck, inbox, min,
                   max, clearedChunks>>

\* TxBlockManager.SetMin(min); it changes c.min only, which no retention
\* handler reads, and is not part of the retention specification
SetMin(m) ==
    /\ SignalUpdate
    /\ min' = m
    /\ chunkLast' = [op |-> "SetMin"]
    /\ UNCHANGED <<execVars, tsvVars, chainVars, link, managerDone>>
    /\ UNCHANGED <<outstanding, fetchedChunks, optimisticChunks, counts,
                   heights, requestID, requests, nodeChunks, nodeSet, calls,
                   netPending, stuck, inbox, max, clearedChunks>>

\* a variant that evicts the buckets below the accepted height only
AcceptMinBelow(height) == height

\* Accept, line 253: the argument of c.chunks.SetMin
AcceptMin(height) == height + 1

\* Accept, line 253: what c.chunks.SetMin returns
AcceptSetMin(height) ==
    ChunkMapSetMin([counts |-> counts, heights |-> heights, evicted |-> <<>>],
                   AcceptMin(height))

\* Accept(height)
Accept(height) ==
    /\ SignalUpdate
    /\ max' = height
    /\ counts' = AcceptSetMin(height).counts
    /\ heights' = AcceptSetMin(height).heights
    /\ fetchedChunks' = Without(fetchedChunks, Range(AcceptSetMin(height).evicted))
    /\ clearedChunks' = clearedChunks \cup Range(AcceptSetMin(height).evicted)
    /\ optimisticChunks' =
           Without(optimisticChunks, Range(AcceptSetMin(height).evicted))
    /\ chunkLast' = [op |-> "Accept", height |-> height,
                     evicted |-> AcceptSetMin(height).evicted,
                     kept |-> {id \in Referenced(heights') :
                                 \E h \in DOMAIN heights \ DOMAIN heights' :
                                     id \in heights[h]}]
    /\ UNCHANGED <<execVars, tsvVars, chainVars, link, managerDone>>
    /\ UNCHANGED <<outstanding, requestID, requests, nodeChunks, nodeSet,
                   calls, netPending, stuck, inbox, min>>

\* Run, line 186: the main loop receives from c.update and the handler that
\* sent returns
RunUpdate ==
    /\ ~managerDone
    /\ updateSenders > 0
    /\ updateSenders' = updateSenders - 1
    /\ UNCHANGED <<execVars, tsvVars, chainVars, link, managerDone>>
    /\ UNCHANGED <<outstanding, fetchedChunks, optimisticChunks, counts,
                   heights, requestID, requests, nodeChunks, nodeSet, calls,
                   netPending, stuck, inbox, min, max, clearedChunks,
                   chunkLast>>

\* the handlers that retain and evict chunks, with fetches of chunk X from
\* the hinted peer that fill the caches
\* the peers connect, gossip their windows and disconnect while a fetch
\* runs; a peer gossips while it is connected
PeersNext ==
    \/ \E p \in PeerIDs, sendOk \in BOOLEAN : HandleConnect(p, sendOk)
    \/ \E p \in PeerIDs : HandleDisconnect(p)
    \/ \E p \in PeerIDs, nc \in PeerWindows :
            link[p] = "connected" /\ HandleAppGossip(p, nc)
    \/ \E id \in ChunkIDs, height \in HeightChoices,
          hint \in Peers \cup {EmptyNodeID} :
            Len(calls) < MaxChunkCalls /\ RequestChunk(id, height, hint, TRUE)
    \/ \E c \in DOMAIN calls : CheckFetched(c)
    \/ \E c \in DOMAIN calls : CheckOptimistic(c)
    \/ \E c \in DOMAIN calls : LoopSleep(c)
    \/ \E c \in DOMAIN calls, peer \in PeerIDs, sendOk \in BOOLEAN :
            LoopSend(c, peer, sendOk)
    \/ \E c \in DOMAIN calls : Exhausted(c)
    \/ \E rid \in netPending, msg \in {"bX", EmptyBytes} :
            HandleResponse(rid, msg)

ChunksNext ==
    \/ \E h \in Heights, chunks \in SUBSET RegisterBytes \ {{}} :
            RegisterChunks(h, chunks)
    \/ \E height \in {0} \cup Heights : Accept(height)
    \/ RunUpdate
    \/ \E id \in ChunkIDs, height \in HeightChoices :
            Len(calls) < MaxChunkCalls /\ RequestChunk(id, height, "p1", FALSE)
    \/ \E c \in DOMAIN calls : CheckFetched(c)
    \/ \E c \in DOMAIN calls : CheckOptimistic(c)
    \/ \E c \in DOMAIN calls : LoopSend(c, "p1", TRUE)
    \/ \E rid \in netPending : HandleResponse(rid, "bX")

CdmNext ==
    \/ \E id \in ChunkIDs, height \in HeightChoices,
          hint \in Peers \cup {EmptyNodeID}, listener \in BOOLEAN :
            RequestChunk(id, height, hint, listener)
    \/ \E c \in DOMAIN calls : CheckFetched(c)
    \/ \E c \in DOMAIN calls : CheckOptimistic(c)
    \/ \E c \in DOMAIN calls : OptimisticHit(c)
    \/ \E c \in DOMAIN calls : LoopCancelled(c)
    \/ \E c \in DOMAIN calls : LoopSleep(c)
    \/ \E c \in DOMAIN calls, peer \in Peers, sendOk \in BOOLEAN :
            LoopSend(c, peer, sendOk)
    \/ \E c \in DOMAIN calls : AwaitCancelled(c)
    \/ \E c \in DOMAIN calls : Exhausted(c)
    \/ \E c \in DOMAIN calls : Cancel(c)
    \/ \E rid \in netPending, msg \in ChunkBytes \cup {EmptyBytes} :
            HandleResponse(rid, msg)
    \/ \E p \in Peers : HandleDisconnect(p)
    \/ \E p \in Peers, nc \in Windows : HandleAppGossip(p, nc)

(***************************************************************************)
(* Chunk manager: claims                                                   *)
(***************************************************************************)
\* the calls for chunk id that have not returned: they are fetching it
Fetching(id) ==
    {c \in DOMAIN calls : calls[c].id = id /\ calls[c].pc # "done"}

\* the app-requests for chunk id that are sent and that a call waits for
LiveRequests(id) ==
    {rid \in netPending : \E c \in Awaiting(rid) : calls[c].id = id}

\* C2: for every chunk id at most one fetch is in progress; a call that
\* found an entry for its id in c.outstanding has only attached its listener:
\* it has returned and has sent no app-request; so of the calls that overlap
\* on an id only one sends, and it waits for at most one app-request at a time
C2_FetchDeduplication ==
    /\ \A id \in ChunkIDs : Cardinality(Fetching(id)) <= 1
    /\ \A c \in DOMAIN calls :
            calls[c].joined => calls[c].pc = "done" /\ ~calls[c].sent
    /\ \A id \in ChunkIDs : Cardinality(LiveRequests(id)) <= 1

\* two calls for one id overlap: the second attached to the first one's
\* entry, and the first waits for the one app-request that is out
C2_Witness ==
    \E id \in ChunkIDs, c1, c2 \in DOMAIN calls :
        /\ c1 # c2
        /\ calls[c1].id = id /\ calls[c2].id = id
        /\ calls[c1].pc = "await" /\ calls[c1].sent
        /\ calls[c2].joined
        /\ id \in DOMAIN outstanding /\ Len(outstanding[id]) = 2
        /\ Cardinality(LiveRequests(id)) = 1

\* call c's result channel is in a listener list of c.outstanding
Attached(c) ==
    \E id \in DOMAIN outstanding :
        \E n \in DOMAIN outstanding[id] : outstanding[id][n] = c

\* C11: a non-nil result channel passed to RequestChunk holds no result
\* while the fetch it is attached to goes on and exactly one result once that
\* fetch has ended, however it ended; a nil channel receives nothing
C11_ListenerNotifiedOnce ==
    \A c \in DOMAIN calls :
        /\ Len(inbox[c]) <= 1
        /\ Attached(c) => calls[c].ch /\ inbox[c] = <<>>
        /\ calls[c].ch /\ ~Attached(c) => Len(inbox[c]) = 1
        /\ ~calls[c].ch => inbox[c] = <<>>

\* a peer's response ended a fetch with two listeners: the call that fetched
\* and the call that attached to it hold the same single result
C11_Witness ==
    \E c1, c2 \in DOMAIN calls :
        /\ c1 # c2
        /\ calls[c1].sent /\ calls[c2].joined
        /\ calls[c1].ch /\ calls[c2].ch
        /\ ~Attached(c1) /\ ~Attached(c2)
        /\ Len(inbox[c1]) = 1 /\ inbox[c2] = inbox[c1]
        /\ inbox[c1][1].err = NilErr

\* C14: counts[id] is the number of height buckets that contain id, an id
\* that no bucket contains has no count, and Add(h, id) for a pair that is
\* registered changes neither the counts nor the buckets
C14_ReferenceCounts ==
    /\ DOMAIN counts = Referenced(heights)
    /\ \A id \in DOMAIN counts : counts[id] = References(heights, id)
    /\ \A h \in DOMAIN heights : \A id \in heights[h] :
            AddCounts(h, id) = counts /\ AddHeights(h, id) = heights

\* after an eviction, a chunk is registered at two heights again
C14_Witness ==
    /\ chunkLast.op = "RegisterChunks"
    /\ clearedChunks # {}
    /\ \E id \in DOMAIN counts : counts[id] = 2
    /\ \E id \in DOMAIN counts : counts[id] = 1

\* the step is a call of Accept
AcceptStep == chunkLast'.op = "Accept" /\ updateSenders' = updateSenders + 1

\* C12: Accept reports a chunk as evicted exactly when the call removes the
\* last height that references it: no chunk is reported while a height that
\* references it is retained, none is reported twice, the reported chunks
\* leave fetchedChunks, and no other step takes a reference away
C12_EvictedExactlyOnce ==
    [][/\ AcceptStep =>
            /\ \A i, j \in DOMAIN chunkLast'.evicted :
                   i # j => chunkLast'.evicted[i] # chunkLast'.evicted[j]
            /\ Range(chunkLast'.evicted) =
                   Referenced(heights) \ Referenced(heights')
            /\ Range(chunkLast'.evicted) \cap DOMAIN fetchedChunks' = {}
            /\ Range(chunkLast'.evicted) \cap DOMAIN counts' = {}
       /\ ~AcceptStep => Referenced(heights) \subseteq Referenced(heights')
      ]_vars

\* Accept removed one of the heights of a chunk that another height still
\* references, without reporting it, and reported another chunk
C12_Witness ==
    /\ chunkLast.op = "Accept"
    /\ chunkLast.kept # {}
    /\ chunkLast.evicted # <<>>
    /\ chunkLast.kept \subseteq DOMAIN fetchedChunks

C18_RetryBound ==
    /\ [](\A c \in DOMAIN calls :
            /\ calls[c].i <= maxChunkRetries
            /\ calls[c].pc = "await" => calls[c].i < maxChunkRetries
            /\ calls[c].pc = "loop" /\ calls[c].i = maxChunkRetries =>
                    ENABLED Exhausted(c))
    /\ [][\A c \in DOMAIN calls :
            /\ requestID' # requestID /\ calls'[c] # calls[c] =>
                    /\ calls[c].i < maxChunkRetries
                    /\ \/ calls'[c].pc = "await" /\ calls'[c].i = calls[c].i
                       \/ calls'[c].pc = "loop"
                            /\ calls'[c].i = calls[c].i + 1
            /\ calls[c].pc = "await" /\ calls'[c].pc = "loop" =>
                    calls'[c].i = calls[c].i + 1
            /\ calls[c].pc = "loop" /\ calls[c].i = maxChunkRetries
                    /\ calls'[c].pc = "done" =>
                    /\ calls[c].id \notin DOMAIN outstanding'
                    /\ \A n \in DOMAIN outstanding[calls[c].id] :
                           LET d == outstanding[calls[c].id][n]
                           IN  d # 0 => inbox'[d] =
                                   <<[chunk |-> EmptyBytes,
                                      err |-> ErrExhausted]>>
         ]_vars

\* a fetch that sent an app-request has used up its attempts: its listener
\* and the listener that joined it hold the exhausted-retries error
C18_Witness ==
    \E c1, c2 \in DOMAIN calls :
        /\ c1 # c2
        /\ calls[c1].sent /\ calls[c1].pc = "done"
        /\ calls[c2].joined
        /\ inbox[c1] = <<[chunk |-> EmptyBytes, err |-> ErrExhausted]>>
        /\ inbox[c2] = inbox[c1]
        /\ outstanding = <<>>

\* C19: the bytes stored under an id in fetchedChunks or in the optimistic
\* cache, and the bytes a listener receives with a nil error, hash to the
\* id; a response that is empty or hashes to another id costs the waiting
\* fetch one attempt and is neither stored nor delivered
C19_ChunkIntegrity ==
    /\ [](/\ \A id \in DOMAIN fetchedChunks : ToID(fetchedChunks[id]) = id
          /\ \A id \in DOMAIN optimisticChunks :
                 ToID(optimisticChunks[id]) = id
          /\ \A c \in DOMAIN calls : \A n \in DOMAIN inbox[c] :
                 inbox[c][n].err = NilErr =>
                     /\ inbox[c][n].chunk # EmptyBytes
                     /\ ToID(inbox[c][n].chunk) = calls[c].id)
    /\ [][\A rid \in netPending, msg \in ChunkBytes \cup {EmptyBytes} :
            \A c \in Awaiting(rid) :
                /\ HandleResponse(rid, msg)
                /\ msg = EmptyBytes \/ ToID(msg) # calls[c].id
                => /\ calls'[c].pc = "loop"
                   /\ calls'[c].i = calls[c].i + 1
                   /\ UNCHANGED <<fetchedChunks, optimisticChunks, inbox,
                                  outstanding, counts, heights>>
         ]_vars

\* a fetch made two app-requests and received both responses: the first was
\* refused, the second is stored under the id and was delivered to its
\* listener and to the listener that had joined
C19_Witness ==
    \E c1, c2 \in DOMAIN calls :
        /\ calls[c1].sent /\ calls[c1].pc = "done" /\ calls[c2].joined
        /\ requestID = 2 /\ requests = {} /\ stuck = {}
        /\ "X" \in DOMAIN fetchedChunks /\ fetchedChunks["X"] = "bX"
        /\ inbox[c1] = <<[chunk |-> "bX", err |-> NilErr]>>
        /\ inbox[c2] = inbox[c1]

\* C20: a fetch whose context is cancelled sends no further app-request,
\* and once it has seen the cancellation, at the top of its retry loop or by
\* giving up the wait for a response, it ends with every listener attached
\* to it receiving the cancellation error
C20_CancelledFetch ==
    [][\A c \in DOMAIN calls :
        /\ requestID' # requestID /\ calls'[c] # calls[c] =>
                ~calls[c].cancelled
        /\ calls[c].pc = "loop" /\ calls[c].cancelled
                /\ calls'[c].pc = "done" =>
                \A n \in DOMAIN outstanding[calls[c].id] :
                    LET d == outstanding[calls[c].id][n]
                    IN  d # 0 => inbox'[d] =
                            <<[chunk |-> EmptyBytes, err |-> ErrCancelled]>>
      ]_vars

\* the result channels of the listeners of id hold exactly the result
Delivered(id, chunk, e) ==
    \A n \in DOMAIN outstanding[id] :
        LET d == outstanding[id][n]
        IN  d # 0 => inbox'[d] = <<[chunk |-> chunk, err |-> e]>>

\* C21: when RequestChunk finds the id in fetchedChunks, or in the
\* optimistic cache, the call ends without sending an app-request and the
\* listeners of the fetch receive the bytes found, with a nil error
C21_CacheBeforeNetwork ==
    [][\A c \in DOMAIN calls :
        calls'[c] # calls[c] =>
            /\ calls[c].pc = "checkFetched"
                    /\ calls[c].id \in DOMAIN fetchedChunks =>
                    /\ calls'[c].pc = "done" /\ ~calls'[c].sent
                    /\ requestID' = requestID
                    /\ Delivered(calls[c].id, fetchedChunks[calls[c].id],
                                 NilErr)
            /\ calls[c].pc = "checkOptimistic"
                    /\ calls[c].id \in DOMAIN optimisticChunks =>
                    /\ calls'[c].pc = "optimisticHit"
                    /\ calls'[c].chunk = optimisticChunks[calls[c].id]
                    /\ requestID' = requestID
            /\ calls[c].pc = "optimisticHit" =>
                    /\ calls'[c].pc = "done" /\ ~calls'[c].sent
                    /\ requestID' = requestID
                    /\ Delivered(calls[c].id, calls[c].chunk, NilErr)
      ]_vars

\* a first call fetched the chunk from a peer; a second call found it in
\* fetchedChunks and its listener holds the bytes although it sent nothing
C21_Witness ==
    \E c1, c2 \in DOMAIN calls :
        /\ c1 < c2
        /\ calls[c1].sent /\ calls[c1].pc = "done"
        /\ calls[c2].pc = "done" /\ ~calls[c2].joined /\ ~calls[c2].sent
        /\ "X" \in DOMAIN fetchedChunks
        /\ inbox[c2] = <<[chunk |-> fetchedChunks["X"], err |-> NilErr]>>
        /\ requestID = 1

\* C22: on an attempt that does not use the hint, when no peer's window
\* covers the height and a peer is connected (is in c.nodeSet), the attempt
\* sends an app-request, and to a connected peer: it does not sleep without
\* a request
C22_PeerFallback ==
    [][\A c \in DOMAIN calls :
        /\ calls[c].pc = "loop" /\ Retrying(c) /\ ~calls[c].cancelled
        /\ ~UsesHint(c) /\ PossibleRecipients(c) = {}
        /\ nodeSet # {}
        /\ calls'[c] # calls[c]
        => /\ requestID' = requestID + 1
           /\ calls'[c].pc = "await" => calls'[c].peer \in nodeSet
      ]_vars

\* C23: the peers that have an entry in c.nodeChunks are in c.nodeSet
C23_PeerIndexConnected == DOMAIN nodeChunks \subseteq nodeSet

\* C24: no attempt addresses an app-request to a peer that has disconnected
\* and has not connected again
C24_NoRequestToDisconnected ==
    [][\A c \in DOMAIN calls :
        /\ calls[c].pc = "loop" /\ calls'[c].pc = "await"
        /\ requestID' = requestID + 1
        => link[calls'[c].peer] # "disconnected"
      ]_vars

\* C38: HandleResponse and HandleRequestFailed always return: no handler is
\* left blocked in its send on the response channel, also when the fetch
\* that made the request has stopped waiting
C38_HandlersReturn == stuck = {}

\* number of fetches that run beside RegisterChunks and Accept, so that a
\* second fetch can find what the first one left in a cache
MaxPinCalls == 2

\* RegisterChunks and Accept interleaved with fetches of chunk X that end on
\* each of the three success paths of RequestChunk: the hit in fetchedChunks,
\* the hit in optimisticChunks and the response of the hinted peer
PinnedNext ==
    \/ \E h \in Heights, chunks \in SUBSET ChunkBytes \ {{}} :
            RegisterChunks(h, chunks)
    \/ \E height \in {0} \cup Heights : Accept(height)
    \/ RunUpdate
    \/ \E id \in ChunkIDs, height \in HeightChoices :
            Len(calls) < MaxPinCalls /\ RequestChunk(id, height, "p1", FALSE)
    \/ \E c \in DOMAIN calls : CheckFetched(c)
    \/ \E c \in DOMAIN calls : CheckOptimistic(c)
    \/ \E c \in DOMAIN calls : OptimisticHit(c)
    \/ \E c \in DOMAIN calls : LoopSend(c, "p1", TRUE)
    \/ \E rid \in netPending : HandleResponse(rid, "bX")

\* C39: every chunk id in fetchedChunks has a reference count of at least 1
\* in the ChunkMap and is in at least one height bucket, in every state in
\* which the chunk lock is free, so that an Accept can evict it
C39_PinnedEvictable ==
    \A id \in DOMAIN fetchedChunks :
        /\ id \in DOMAIN counts
        /\ counts[id] >= 1
        /\ id \in Referenced(heights)

\* before any RegisterChunks or Accept, a fetch with a height has found in
\* optimisticChunks the chunk that a fetch without a height got from the
\* peer, and has pinned it
C39_Witness ==
    /\ chunkLast.op = "none"
    /\ "X" \in DOMAIN optimisticChunks
    /\ "X" \in DOMAIN fetchedChunks
    /\ counts["X"] = 1
    /\ \A c \in DOMAIN calls : calls[c].pc = "done"

\* RequestChunks(ctx, height, chunkIDs, ch) with no chunk ids, lines 268-292:
\* no fetch is started, g.Wait returns nil and the handler signals the update
RequestChunksEmpty ==
    /\ SignalUpdate
    /\ chunkLast' = [op |-> "RequestChunks"]
    /\ UNCHANGED <<execVars, tsvVars, chainVars, link, managerDone>>
    /\ UNCHANGED <<outstanding, fetchedChunks, optimisticChunks, counts,
                   heights, requestID, requests, nodeChunks, nodeSet, calls,
                   netPending, stuck, inbox, min, max, clearedChunks>>

\* Run, lines 194-196 and 184: the main loop takes the stop signal and
\* returns, which closes c.done; the handlers blocked in their send stay so
RunStop ==
    /\ ~managerDone
    /\ managerDone' = TRUE
    /\ UNCHANGED <<execVars, tsvVars, chainVars, link>>
    /\ UNCHANGED <<outstanding, fetchedChunks, optimisticChunks, counts,
                   heights, requestID, requests, nodeChunks, nodeSet, calls,
                   netPending, stuck, inbox, min, max, clearedChunks,
                   updateSenders, chunkLast>>

\* the handlers that signal the main loop, the main loop, and its exit on
\* the stop signal
UpdateNext ==
    \/ \E h \in Heights, chunks \in SUBSET ChunkBytes \ {{}} :
            RegisterChunks(h, chunks)
    \/ \E m \in {0} \cup Heights : SetMin(m)
    \/ \E height \in {0} \cup Heights : Accept(height)
    \/ RequestChunksEmpty
    \/ RunUpdate
    \/ RunStop

\* C40: RegisterChunks, SetMin, Accept and RequestChunks return: no handler
\* is left in its send on c.update once the main loop has returned, since
\* nothing receives from c.update after that
C40_HandlersReturn == ~(managerDone /\ updateSenders > 0)

(***************************************************************************)
(* Transactional state view (tstate.TStateView)                            *)
(***************************************************************************)
\* number of undo records in the log
MaxOps == 4

TsvKeys == {"key1", "key2"}
TsvValues == {"v", "ww"}
\* keys.MaxChunks: the number of chunks encoded in the key's suffix
MaxChunks(k) == IF k = "key1" THEN 1 ELSE 2
\* keys.NumChunks: the number of chunks a value takes
NumChunks(v) == IF v = "v" THEN 1 ELSE 2
\* keys.VerifyValue: the value fits the chunks the key declares
VerifyValue(k, v) == NumChunks(v) <= MaxChunks(k)

\* a permission argument that names no permission
OutOfBoundsPerm == 100
Permissions == {Read, Allocate, Write}

RECURSIVE Sum(_)
Sum(S) == IF S = {} THEN 0
          ELSE LET x == CHOOSE y \in S : TRUE IN x + Sum(S \ {x})

\* a NewKey that folds an argument beyond the permissions back into them
NewKeyWrapped(perms) == Sum({p % 8 : p \in perms} \cap Permissions)

\* state.NewKey(name, permission...): the permission bitset of the key; an
\* argument that is none of Read, Allocate and Write sets nothing
NewKey(perms) == Sum(perms \cap Permissions)

\* Permission.HasPermission(p)
HasPermission(permission, p) == p \in Permissions /\ Has(permission, p)

\* the permission arguments of the keys of a scope
PermissionArgs == {{}, {Read}, {Write}, {Read, Write},
                   {Read, Allocate, Write}, {OutOfBoundsPerm}}
\* the scopes handed to NewView: some of the keys, each with its arguments
Scopes == UNION {[S -> PermissionArgs] : S \in SUBSET TsvKeys}
Storages == UNION {[S -> {"v"}] : S \in SUBSET TsvKeys}
\* the scope of the commit tests: every key with Read and Write
CommitScope == [k \in TsvKeys |-> {Read, Write}]

ErrNil == "nil"
ErrInvalidKeyOrPermission == "ErrInvalidKeyOrPermission"
ErrInvalidKeyValue == "ErrInvalidKeyValue"
ErrAllocationDisabled == "ErrAllocationDisabled"

ErrNotFound == "ErrNotFound"

Called(op, e, n) == [op |-> op, err |-> e, n |-> n]
\* a call of GetValue, Insert or Remove on key k
CalledOn(op, e, k) == [op |-> op, err |-> e, n |-> 0, k |-> k]
\* a call of Insert of value v on key k; again: the call before it was the
\* same Insert and it returned nil
CalledInsert(e, k, v) ==
    [op |-> "Insert", err |-> e, n |-> 0, k |-> k, v |-> v,
     again |-> /\ tsvLast.op = "Insert" /\ tsvLast.err = ErrNil
               /\ tsvLast.k = k /\ tsvLast.v = v]

\* a call of GetValue on key k that returned the value val ({} is none)
CalledGetValue(e, k, val) ==
    [op |-> "GetValue", err |-> e, n |-> 0, k |-> k, val |-> val]

\* tstate.New, before NewView
TsvInit ==
    /\ changedKeys = <<>>
    /\ tsOps = 0
    /\ view = FALSE
    /\ scope = <<>>
    /\ scopeStorage = <<>>
    /\ pendingChangedKeys = <<>>
    /\ allocates = <<>>
    /\ writes = <<>>
    /\ ops = <<>>
    /\ canAllocate = TRUE
    /\ tsvLast = Called("none", ErrNil, 0)
    /\ snaps = <<>>

\* the part of the view that Rollback restores
ViewState == [p |-> pendingChangedKeys, a |-> allocates, w |-> writes]

\* NewView(scope, storage)
NewView(sc, st) ==
    /\ ~view
    /\ view' = TRUE
    /\ scope' = [k \in DOMAIN sc |->
                    [args |-> sc[k], Permission |-> NewKey(sc[k])]]
    /\ scopeStorage' = st
    /\ tsvLast' = Called("NewView", ErrNil, 0)
    /\ pendingChangedKeys' = <<>>
    /\ allocates' = <<>>
    /\ writes' = <<>>
    /\ ops' = <<>>
    /\ canAllocate' = TRUE
    /\ snaps' = <<ViewState'>>
    /\ UNCHANGED tstateVars
    /\ UNCHANGED <<execVars, cdmVars, chainVars>>

\* a check that lets a key that is not in scope through
CheckScopeAnyKey(k, perm) ==
    k \notin DOMAIN scope \/ HasPermission(scope[k].Permission, perm)

\* checkScope: the key is in scope with the permission bit set
CheckScope(k, perm) ==
    k \in DOMAIN scope /\ HasPermission(scope[k].Permission, perm)

\* the value of a key without the pending changes of the view: what the
\* parent has committed for it, else what the storage map holds
Original(k) ==
    IF k \in DOMAIN changedKeys THEN changedKeys[k]
    ELSE IF k \in DOMAIN scopeStorage THEN {scopeStorage[k]}
    ELSE {}

\* a view that reads its storage map before the changes committed to the
\* parent
GetValueStorageFirst(k) ==
    IF k \in DOMAIN pendingChangedKeys THEN pendingChangedKeys[k]
    ELSE IF k \in DOMAIN scopeStorage THEN {scopeStorage[k]}
    ELSE IF k \in DOMAIN changedKeys THEN changedKeys[k]
    ELSE {}

\* getValue: the pending change if there is one, else the change committed
\* to the parent, else the storage value ({} when the key does not exist)
GetValue(k) ==
    IF k \in DOMAIN pendingChangedKeys THEN pendingChangedKeys[k]
    ELSE Original(k)

\* the undo record of an operation on k: the prior value, the prior counters
\* ({} is nil) and whether k had a pending change
OpRecord(k) ==
    [k |-> k,
     pastChanged |-> k \in DOMAIN pendingChangedKeys,
     pastV |-> GetValue(k),
     pastAllocates |-> IF k \in DOMAIN allocates THEN {allocates[k]} ELSE {},
     pastWrites |-> IF k \in DOMAIN writes THEN {writes[k]} ELSE {}]

\* Insert: what the call returns
InsertErr(k, v) ==
    IF ~CheckScope(k, Write) THEN ErrInvalidKeyOrPermission
    ELSE IF ~VerifyValue(k, v) THEN ErrInvalidKeyValue
    ELSE IF GetValue(k) # {} THEN ErrNil
    ELSE IF ~canAllocate THEN ErrAllocationDisabled
    ELSE ErrNil

\* a view that does not notice that a key is back to its stored value
RevertsNever(k, val) == FALSE

\* Insert and Remove: the operation puts the key back to what the storage holds
Reverts(k, val) == val = Original(k)

\* Insert(k, v): the pending changes afterwards
InsertPending(k, v) ==
    IF Reverts(k, {v}) THEN Delete(pendingChangedKeys, k)
    ELSE Put(pendingChangedKeys, k, {v})

\* an Insert that counts the chunks of the value as allocated
InsertAllocatesValue(k, v) ==
    IF Reverts(k, {v}) THEN Delete(allocates, k)
    ELSE IF GetValue(k) = {} THEN Put(allocates, k, NumChunks(v))
    ELSE allocates

\* Insert(k, v): the allocate counters afterwards
InsertAllocates(k, v) ==
    IF Reverts(k, {v}) THEN Delete(allocates, k)
    ELSE IF GetValue(k) = {} THEN Put(allocates, k, MaxChunks(k))
    ELSE allocates

\* Insert(k, v): the write counters afterwards
InsertWrites(k, v) ==
    IF Reverts(k, {v}) THEN Delete(writes, k)
    ELSE Put(writes, k, NumChunks(v))

\* an Insert that does not look at the value the key has
NoChangeNever(k, v) == FALSE

\* Insert: the key has the value already
NoChange(k, v) == GetValue(k) = {v}

\* a Remove that takes every key to exist
AbsentNever(k) == FALSE

\* Remove: the key does not exist
Absent(k) == GetValue(k) = {}

\* Insert(ctx, key, value)
Insert(k, v) ==
    /\ view
    /\ Len(ops) < MaxOps
    /\ IF InsertErr(k, v) # ErrNil \/ NoChange(k, v)
       THEN UNCHANGED <<pendingChangedKeys, allocates, writes, ops, snaps>>
       ELSE /\ pendingChangedKeys' = InsertPending(k, v)
            /\ allocates' = InsertAllocates(k, v)
            /\ writes' = InsertWrites(k, v)
            /\ ops' = Append(ops, OpRecord(k))
            /\ snaps' = Append(snaps, ViewState')
    /\ tsvLast' = CalledInsert(InsertErr(k, v), k, v)
    /\ UNCHANGED <<view, scope, scopeStorage, canAllocate>>
    /\ UNCHANGED tstateVars
    /\ UNCHANGED <<execVars, cdmVars, chainVars>>

\* GetValue: what the call returns beside the value
GetValueErr(k) ==
    IF ~CheckScope(k, Read) THEN ErrInvalidKeyOrPermission
    ELSE IF GetValue(k) = {} THEN ErrNotFound
    ELSE ErrNil

\* GetValue(ctx, key)
TStateViewGetValue(k) ==
    /\ view
    /\ tsvLast' = CalledGetValue(GetValueErr(k), k,
                   IF CheckScope(k, Read) THEN GetValue(k) ELSE {})
    /\ UNCHANGED <<view, scope, scopeStorage, pendingChangedKeys, allocates,
                   writes, ops, canAllocate, snaps>>
    /\ UNCHANGED tstateVars
    /\ UNCHANGED <<execVars, cdmVars, chainVars>>

\* Remove: what the call returns
RemoveErr(k) ==
    IF CheckScope(k, Write) THEN ErrNil ELSE ErrInvalidKeyOrPermission

\* Remove(ctx, key)
Remove(k) ==
    /\ view
    /\ Len(ops) < MaxOps
    /\ IF ~CheckScope(k, Write) \/ Absent(k)
       THEN UNCHANGED <<pendingChangedKeys, allocates, writes, ops, snaps>>
       ELSE /\ pendingChangedKeys' =
                 IF Reverts(k, {}) THEN Delete(pendingChangedKeys, k)
                 ELSE Put(pendingChangedKeys, k, {})
            /\ allocates' = Delete(allocates, k)
            /\ writes' = IF Reverts(k, {}) THEN Delete(writes, k)
                         ELSE Put(writes, k, 0)
            /\ ops' = Append(ops, OpRecord(k))
            /\ snaps' = Append(snaps, ViewState')
    /\ tsvLast' = CalledOn("Remove", RemoveErr(k), k)
    /\ UNCHANGED <<view, scope, scopeStorage, canAllocate>>
    /\ UNCHANGED tstateVars
    /\ UNCHANGED <<execVars, cdmVars, chainVars>>

\* a map with k restored to a past value that may be nil
Restore(m, k, past) ==
    IF past = {} THEN Delete(m, k) ELSE Put(m, k, CHOOSE x \in past : TRUE)

\* an undo that restores the pending change and the allocate counter only
UndoKeepWrites(st, op) ==
    [p |-> IF op.pastChanged THEN Put(st.p, op.k, op.pastV)
           ELSE Delete(st.p, op.k),
     a |-> Restore(st.a, op.k, op.pastAllocates),
     w |-> st.w]

\* Rollback: one undo record replayed
Undo(st, op) ==
    [p |-> IF op.pastChanged THEN Put(st.p, op.k, op.pastV)
           ELSE Delete(st.p, op.k),
     a |-> Restore(st.a, op.k, op.pastAllocates),
     w |-> Restore(st.w, op.k, op.pastWrites)]

\* Rollback: the records from the end of the log down to restorePoint
\* replayed in reverse
RECURSIVE Replay(_, _, _)
Replay(st, log, restorePoint) ==
    IF Len(log) <= restorePoint THEN st
    ELSE Replay(Undo(st, log[Len(log)]), SubSeq(log, 1, Len(log) - 1),
                restorePoint)

\* Rollback(ctx, restorePoint)
Rollback(restorePoint) ==
    /\ view
    /\ restorePoint \in 0..Len(ops)
    /\ pendingChangedKeys' = Replay(ViewState, ops, restorePoint).p
    /\ allocates' = Replay(ViewState, ops, restorePoint).a
    /\ writes' = Replay(ViewState, ops, restorePoint).w
    /\ ops' = SubSeq(ops, 1, restorePoint)
    /\ snaps' = SubSeq(snaps, 1, restorePoint + 1)
    /\ tsvLast' = Called("Rollback", ErrNil, Len(ops) - restorePoint)
    /\ UNCHANGED <<view, scope, scopeStorage, canAllocate>>
    /\ UNCHANGED tstateVars
    /\ UNCHANGED <<execVars, cdmVars, chainVars>>

\* DisableAllocation
DisableAllocation ==
    /\ view
    /\ canAllocate' = FALSE
    /\ tsvLast' = Called("DisableAllocation", ErrNil, 0)
    /\ UNCHANGED <<view, scope, scopeStorage, pendingChangedKeys, allocates,
                   writes, ops, snaps>>
    /\ UNCHANGED tstateVars
    /\ UNCHANGED <<execVars, cdmVars, chainVars>>

\* EnableAllocation
EnableAllocation ==
    /\ view
    /\ canAllocate' = TRUE
    /\ tsvLast' = Called("EnableAllocation", ErrNil, 0)
    /\ UNCHANGED <<view, scope, scopeStorage, pendingChangedKeys, allocates,
                   writes, ops, snaps>>
    /\ UNCHANGED tstateVars
    /\ UNCHANGED <<execVars, cdmVars, chainVars>>

\* Commit: the pending changes of the view go to the parent, which counts
\* the operations of the view; the log is discarded and the view is not
\* used again, its counters stay readable
Commit ==
    /\ view
    /\ tsOps + Len(ops) <= MaxOps
    /\ changedKeys' =
          [k \in DOMAIN changedKeys \cup DOMAIN pendingChangedKeys |->
              IF k \in DOMAIN pendingChangedKeys THEN pendingChangedKeys[k]
              ELSE changedKeys[k]]
    /\ tsOps' = tsOps + Len(ops)
    /\ view' = FALSE
    /\ ops' = <<>>
    /\ snaps' = <<>>
    /\ tsvLast' = Called("Commit", ErrNil, Len(ops))
    /\ UNCHANGED <<scope, scopeStorage, pendingChangedKeys, allocates, writes,
                   canAllocate>>
    /\ UNCHANGED <<execVars, cdmVars, chainVars>>

\* views over both keys with Read and Write, committed one after the other
CommitNext ==
    \/ \E st \in Storages : NewView(CommitScope, st)
    \/ \E k \in TsvKeys, v \in TsvValues : Insert(k, v)
    \/ \E k \in TsvKeys : Remove(k)
    \/ \E k \in TsvKeys : TStateViewGetValue(k)
    \/ Commit

TsvNext ==
    \/ \E sc \in Scopes, st \in Storages : NewView(sc, st)
    \/ \E k \in TsvKeys, v \in TsvValues : Insert(k, v)
    \/ \E k \in TsvKeys : Remove(k)
    \/ \E k \in TsvKeys : TStateViewGetValue(k)
    \/ \E restorePoint \in 0..MaxOps : Rollback(restorePoint)
    \/ DisableAllocation
    \/ EnableAllocation

(***************************************************************************)
(* Transactional state view: claims                                        *)
(***************************************************************************)
\* C3: after any sequence of Insert and Remove followed by Rollback(n), with
\* n at most the length of the log, pendingChanges, the allocate counters,
\* the write counters and opIndex are what they were when the first n logged
\* operations had been applied
C3_RollbackEquivalence ==
    view =>
        /\ Len(snaps) = Len(ops) + 1
        /\ ViewState = snaps[Len(ops) + 1]

\* a Rollback has undone two logged operations and left one, whose insert
\* is still pending with its counters
C3_Witness ==
    /\ view
    /\ tsvLast.op = "Rollback" /\ tsvLast.n >= 2
    /\ Len(ops) = 1
    /\ DOMAIN pendingChangedKeys # {}
    /\ DOMAIN allocates # {} /\ DOMAIN writes # {}

\* the step is a call of GetValue, Insert or Remove on a view
KeyCall == view /\ tsvLast'.op \in {"GetValue", "Insert", "Remove"}

\* C15: for a key that is not in the scope of the view, GetValue, Insert and
\* Remove return ErrInvalidKeyOrPermission and leave the pending changes,
\* the allocate and write counters and the operation log as they were
C15_ScopeEnforcement ==
    [][KeyCall /\ tsvLast'.k \notin DOMAIN scope =>
        /\ tsvLast'.err = ErrInvalidKeyOrPermission
        /\ UNCHANGED <<pendingChangedKeys, allocates, writes, ops>>
      ]_vars

\* Remove was refused for a stored key that is out of scope, on a view with
\* logged operations on the key in scope
C15_Witness ==
    /\ view
    /\ tsvLast.op = "Remove"
    /\ tsvLast.k \notin DOMAIN scope /\ tsvLast.k \in DOMAIN scopeStorage
    /\ tsvLast.err = ErrInvalidKeyOrPermission
    /\ ops # <<>> /\ DOMAIN writes # {}

\* C16: on a key in scope GetValue without Read among the key's permissions,
\* and Insert and Remove without Write, return ErrInvalidKeyOrPermission and
\* change nothing; a permission built from an out-of-range argument has
\* none of Read, Allocate and Write
C16_PermissionBits ==
    [][KeyCall /\ tsvLast'.k \in DOMAIN scope =>
        LET key == scope[tsvLast'.k]
            needed == IF tsvLast'.op = "GetValue" THEN Read ELSE Write
        IN  /\ needed \notin key.args =>
                /\ tsvLast'.err = ErrInvalidKeyOrPermission
                /\ UNCHANGED <<pendingChangedKeys, allocates, writes, ops>>
            /\ OutOfBoundsPerm \in key.args =>
                \A p \in Permissions \cup {OutOfBoundsPerm} :
                    HasPermission(key.Permission, p) <=>
                        p \in key.args \cap Permissions
      ]_vars

\* Insert was refused on a stored key whose permission was built from the
\* out-of-range argument alone
C16_Witness ==
    /\ view
    /\ tsvLast.op = "Insert"
    /\ tsvLast.k \in DOMAIN scope /\ tsvLast.k \in DOMAIN scopeStorage
    /\ scope[tsvLast.k].args = {OutOfBoundsPerm}
    /\ tsvLast.err = ErrInvalidKeyOrPermission

\* C17: Insert of a key that is absent (not stored and not pending) fails
\* unless the permission of the key has Allocate beside Write
C17_AllocateRequired ==
    [][/\ KeyCall /\ tsvLast'.op = "Insert"
       /\ tsvLast'.k \in DOMAIN scope
       /\ GetValue(tsvLast'.k) = {}
       /\ ~HasPermission(scope[tsvLast'.k].Permission, Allocate)
       => tsvLast'.err # ErrNil
      ]_vars

\* C32: when the function of one task returns an error (PreExecute failed
\* for its transaction), only that task is dropped: the failure is not
\* latched as the error of the executor, which would stop the workers and
\* end the processing of the block with that error
C32_FailureIsolation == failed # <<>> => err.kind # "task"

\* C36: the function of every task that Run enqueued is invoked at most once,
\* so e.completed never exceeds the number of tasks
C36_SingleExecution ==
    /\ \A t \in DOMAIN started : started[t] <= 1
    /\ completed <= NumTasks

\* C37: with no Run after Wait, e.executable is closed at most once and no
\* task is sent on it once it is closed (either would panic)
C37_ReadyChannelLifecycle == ~panicked

\* the executions of task functions in progress: the n-th start of task t
\* for which t.f has not returned yet
Executions ==
    UNION {{<<t, n>> : n \in (returned[t] + 1)..started[t]} :
              t \in DOMAIN started}

\* C25: the number of task functions executing at the same time is at most
\* the worker count given to New
C25_ConcurrencyBound == Cardinality(Executions) <= Concurrency

\* as many task functions execute as there are workers while another task
\* waits in e.executable
C25_Witness ==
    /\ Cardinality(Executions) = Concurrency
    /\ executable # <<>>

\* the step is a call of Insert that returned nil
InsertCall == KeyCall /\ tsvLast'.op = "Insert" /\ tsvLast'.err = ErrNil

\* C26: an Insert of the value that the storage holds for the key, after the
\* key was modified or removed in the view, leaves no pending entry and no
\* allocate or write counter for the key
C26_ModifyThenRevert ==
    [][/\ InsertCall
       /\ tsvLast'.k \in DOMAIN scopeStorage
       /\ tsvLast'.v = scopeStorage[tsvLast'.k]
       => /\ tsvLast'.k \notin DOMAIN pendingChangedKeys'
          /\ tsvLast'.k \notin DOMAIN allocates'
          /\ tsvLast'.k \notin DOMAIN writes'
      ]_vars

\* key2 is stored with "v": it was modified to "ww", removed, and inserted
\* again with "v", and nothing is pending for it
C26_Witness ==
    /\ view
    /\ tsvLast.op = "Insert" /\ tsvLast.err = ErrNil
    /\ tsvLast.k = "key2" /\ tsvLast.v = "v"
    /\ "key2" \in DOMAIN scopeStorage
    /\ Len(ops) = 3
    /\ ops[1].pastV = {"v"} /\ ops[2].pastV = {"ww"} /\ ops[3].pastV = {}
    /\ \A i \in 1..3 : ops[i].k = "key2"
    /\ "key2" \notin DOMAIN pendingChangedKeys
    /\ "key2" \notin DOMAIN writes

\* C27: an Insert(k, v) that follows the same Insert returns nil and changes
\* neither the pending value nor the counters, and logs no operation
C27_InsertIdempotent ==
    [][InsertCall /\ tsvLast'.again =>
          UNCHANGED <<pendingChangedKeys, allocates, writes, ops>>
      ]_vars

\* the second of two equal Inserts has returned: one operation is logged
C27_Witness ==
    /\ view
    /\ tsvLast.op = "Insert" /\ tsvLast.err = ErrNil /\ tsvLast.again
    /\ Len(ops) = 1
    /\ pendingChangedKeys = [k \in {tsvLast.k} |-> {tsvLast.v}]
    /\ tsvLast.k \in DOMAIN writes

\* the step is a call of Remove that returned nil
RemoveCall == KeyCall /\ tsvLast'.op = "Remove" /\ tsvLast'.err = ErrNil

C29_RemoveAbsent ==
    [][/\ KeyCall /\ tsvLast'.op = "Remove"
       /\ CheckScope(tsvLast'.k, Write)
       /\ tsvLast'.k \notin DOMAIN scopeStorage
       /\ tsvLast'.k \notin DOMAIN pendingChangedKeys
       => /\ tsvLast'.err = ErrNil
          /\ UNCHANGED <<pendingChangedKeys, allocates, writes, ops>>
      ]_vars

\* Remove of an absent key has returned nil on a view that holds a pending
\* insert of the other key
C29_Witness ==
    /\ view
    /\ tsvLast.op = "Remove" /\ tsvLast.err = ErrNil
    /\ tsvLast.k \notin DOMAIN scopeStorage
    /\ tsvLast.k \notin DOMAIN pendingChangedKeys
    /\ Len(ops) = 1 /\ ops[1].k # tsvLast.k
    /\ DOMAIN pendingChangedKeys # {}

\* C30: Commit gives the parent the value that the view read for each key
\* it changed and adds the operations of the view to the parent's count; a
\* view created afterwards reads the committed value of a key in preference
\* to its storage map, and a committed deletion reads as ErrNotFound
C30_CommitVisibility ==
    [][/\ tsvLast'.op = "Commit" /\ view =>
            /\ \A k \in DOMAIN pendingChangedKeys :
                   k \in DOMAIN changedKeys' /\ changedKeys'[k] = GetValue(k)
            /\ \A k \in DOMAIN changedKeys \ DOMAIN pendingChangedKeys :
                   k \in DOMAIN changedKeys' /\ changedKeys'[k] = changedKeys[k]
            /\ tsOps' = tsOps + Len(ops)
       /\ /\ KeyCall /\ tsvLast'.op = "GetValue"
          /\ CheckScope(tsvLast'.k, Read)
          /\ tsvLast'.k \in DOMAIN changedKeys
          /\ tsvLast'.k \notin DOMAIN pendingChangedKeys
          => /\ tsvLast'.val = changedKeys[tsvLast'.k]
             /\ tsvLast'.err = IF changedKeys[tsvLast'.k] = {}
                               THEN ErrNotFound ELSE ErrNil
      ]_vars

\* a view on a parent to which the removal of a key was committed as its one
\* operation: GetValue of the key returned ErrNotFound although the storage
\* map of the view holds the key
C30_Witness ==
    /\ view
    /\ tsvLast.op = "GetValue" /\ tsvLast.err = ErrNotFound
    /\ tsvLast.k \in DOMAIN scopeStorage
    /\ changedKeys = [k \in {tsvLast.k} |-> {}]
    /\ tsOps = 1
    /\ pendingChangedKeys = <<>>

(***************************************************************************)
(* Chunk processor (chain.Processor)                                       *)
(***************************************************************************)
\* the capacity of p.input (the argument chunks of NewProcessor); as many
\* chunks are supplied at most
BlockChunks == 2

\* the chunks of a block: one without transactions, one whose first
\* transaction fails in tx.StateKeys, one with transactions
ChunkKinds == {"empty", "badKeys", "txs"}

ErrNotReady == "not ready"
ErrStateKeys == "state keys"

\* NewProcessor, and Run up to its loop (lines 186-201): the executor is
\* created and Wait, called on it with no task enqueued, closes e.executable
\* and returns nil
ProcInit ==
    /\ pl = "free"
    /\ complete = FALSE
    /\ perr = NilErr
    /\ input = <<>>
    /\ inputClosed = FALSE
    /\ output = <<>>
    /\ ctxDone = FALSE
    /\ ppc = "select"
    /\ pchunk = "none"
    /\ processErr = NilErr
    /\ supplied = <<>>
    /\ resultsLast = "none"

\* Add(chunk): a send on p.input, which waits while the channel is full
ProcessorAdd(c) ==
    /\ ~inputClosed
    /\ Len(supplied) < BlockChunks
    /\ Len(input) < BlockChunks
    /\ input' = Append(input, c)
    /\ supplied' = Append(supplied, c)
    /\ UNCHANGED <<pl, complete, perr, inputClosed, output, ctxDone, ppc,
                   pchunk, processErr, resultsLast>>
    /\ UNCHANGED <<execVars, cdmVars, tsvVars, engineVars, filterVars>>

\* Done(): close(p.input)
ProcessorDone ==
    /\ ~inputClosed
    /\ inputClosed' = TRUE
    /\ UNCHANGED <<pl, complete, perr, input, output, ctxDone, ppc, pchunk,
                   processErr, supplied, resultsLast>>
    /\ UNCHANGED <<execVars, cdmVars, tsvVars, engineVars, filterVars>>

\* the context of Run is cancelled
CtxCancel ==
    /\ ~ctxDone
    /\ ctxDone' = TRUE
    /\ UNCHANGED <<pl, complete, perr, input, inputClosed, output, ppc,
                   pchunk, processErr, supplied, resultsLast>>
    /\ UNCHANGED <<execVars, cdmVars, tsvVars, engineVars, filterVars>>

\* Run, line 206 with a chunk in the channel
RunReceive ==
    /\ ppc = "select"
    /\ input # <<>>
    /\ pchunk' = Head(input)
    /\ input' = Tail(input)
    /\ ppc' = "lock"
    /\ UNCHANGED <<pl, complete, perr, inputClosed, output, ctxDone,
                   processErr, supplied, resultsLast>>
    /\ UNCHANGED <<execVars, cdmVars, tsvVars, engineVars, filterVars>>

\* Run, lines 206-212 on the closed and drained channel: complete is set
\* under p.l and Run returns
RunInputClosed ==
    /\ ppc = "select"
    /\ input = <<>> /\ inputClosed
    /\ pl = "free"
    /\ complete' = TRUE
    /\ ppc' = "returned"
    /\ UNCHANGED <<pl, perr, input, inputClosed, output, ctxDone, pchunk,
                   processErr, supplied, resultsLast>>
    /\ UNCHANGED <<execVars, cdmVars, tsvVars, engineVars, filterVars>>

\* Run, lines 230-236: the context is done; p.err is assigned only if it is
\* already set (if p.err != nil), and Run returns
RunCtxDone ==
    /\ ppc = "select"
    /\ ctxDone
    /\ pl = "free"
    /\ perr' = IF perr # NilErr THEN ErrCancelled ELSE perr
    /\ ppc' = "returned"
    /\ UNCHANGED <<pl, complete, input, inputClosed, output, ctxDone, pchunk,
                   processErr, supplied, resultsLast>>
    /\ UNCHANGED <<execVars, cdmVars, tsvVars, engineVars, filterVars>>

\* Run, lines 214-218: p.l.Lock(); with an error latched the chunk is
\* skipped (Unlock, continue), otherwise Run goes on to process with p.l held
RunLock ==
    /\ ppc = "lock"
    /\ pl = "free"
    /\ IF perr # NilErr
       THEN ppc' = "select" /\ UNCHANGED pl
       ELSE ppc' = "process" /\ pl' = "Run"
    /\ UNCHANGED <<complete, perr, input, inputClosed, output, ctxDone,
                   pchunk, processErr, supplied, resultsLast>>
    /\ UNCHANGED <<execVars, cdmVars, tsvVars, engineVars, filterVars>>

\* process(ctx, c), lines 77-180: a failure of tx.StateKeys is returned; a
\* transaction is handed to p.exectutor.Run, whose send on e.executable
\* (closed by the Wait of line 199) panics; a chunk without transactions
\* returns nil. Run then calls p.l.Lock() at line 221
RunProcess ==
    /\ ppc = "process"
    /\ ppc' = IF pchunk = "txs" THEN "panicked" ELSE "lock221"
    /\ processErr' = IF pchunk = "badKeys" THEN ErrStateKeys ELSE NilErr
    /\ UNCHANGED <<pl, complete, perr, input, inputClosed, output, ctxDone,
                   pchunk, supplied, resultsLast>>
    /\ UNCHANGED <<execVars, cdmVars, tsvVars, engineVars, filterVars>>

\* Results(): under p.l, ErrNotReady until complete, then p.err or the output
Results ==
    /\ pl = "free"
    /\ resultsLast' = IF ~complete THEN ErrNotReady
                      ELSE IF perr # NilErr THEN perr
                      ELSE "output"
    /\ UNCHANGED <<pl, complete, perr, input, inputClosed, output, ctxDone,
                   ppc, pchunk, processErr, supplied>>
    /\ UNCHANGED <<execVars, cdmVars, tsvVars, engineVars, filterVars>>

\* Run at line 221 waits for p.l, which sync.Mutex does not give to the
\* goroutine that holds it: there is no step from "lock221" while pl = "Run",
\* and nothing else unlocks p.l
ProcNext ==
    \/ \E c \in ChunkKinds : ProcessorAdd(c)
    \/ ProcessorDone
    \/ CtxCancel
    \/ RunReceive
    \/ RunInputClosed
    \/ RunCtxDone
    \/ RunLock
    \/ RunProcess
    \/ Results

\* C33: Run never blocks on its own lock: it is never waiting for p.l at
\* line 221 while holding it since line 214, so that it gets to mark the
\* processor complete after Done
C33_RunCompletes == ~(ppc = "lock221" /\ pl = "Run")

\* C35: a Run that ended on the cancelled context (it returned without
\* marking the processor complete) has latched a non-nil error
C35_ErrorSurfaced == ppc = "returned" /\ ~complete => perr # NilErr

(***************************************************************************)
(* Block engine (chain.Engine)                                             *)
(***************************************************************************)
\* the heights of the blocks handed to Execute
MaxHeight == 3
\* the capacity of e.backlog (the argument maxBacklog of NewEngine)
MaxBacklog == 2
\* the height of the last accepted state, from which Run starts
GenesisHeight == 0

\* NewEngine, and Run up to its loop (lines 121-129)
EngineInit ==
    /\ backlog = <<>>
    /\ parentView = [height |-> GenesisHeight]
    /\ outputs = <<>>
    /\ epc = "select"
    /\ job = [height |-> 0]

\* Execute(blk): the job is sent on e.backlog, which waits while it is full
Execute(h) ==
    /\ Len(backlog) < MaxBacklog
    /\ backlog' = Append(backlog, [height |-> h])
    /\ UNCHANGED <<parentView, outputs, epc, job>>
    /\ UNCHANGED <<execVars, cdmVars, tsvVars, procVars, filterVars>>

\* a check that accepts every height
HeightValidAny(h) == TRUE

\* Run, line 143: the height of the block is the parent's plus one
HeightValid(h) == h = parentView.height + 1

\* Run, lines 133-160: a job is received; a block whose height does not
\* follow the height key of parentView panics with ErrInvalidBlockHeight,
\* otherwise the processor is created and Run ranges over job.chunks
EngineReceive ==
    /\ epc = "select"
    /\ backlog # <<>>
    /\ job' = Head(backlog)
    /\ backlog' = Tail(backlog)
    /\ epc' = IF HeightValid(Head(backlog).height) THEN "chunks" ELSE "panicked"
    /\ UNCHANGED <<parentView, outputs>>
    /\ UNCHANGED <<execVars, cdmVars, tsvVars, procVars, filterVars>>

\* Run, lines 162-167: a chunk arrives on job.chunks; after p.Add the
\* assignment chunks[len(chunks)] = chunk indexes a slice of length 0 and
\* panics (or p.Add fails and Run panics with its error)
EngineChunk ==
    /\ epc = "chunks"
    /\ epc' = "panicked"
    /\ UNCHANGED <<backlog, parentView, outputs, job>>
    /\ UNCHANGED <<execVars, cdmVars, tsvVars, procVars, filterVars>>

\* Run, line 162: job.chunks is closed and the range ends
EngineChunksClosed ==
    /\ epc = "chunks"
    /\ epc' = "wait"
    /\ UNCHANGED <<backlog, parentView, outputs, job>>
    /\ UNCHANGED <<execVars, cdmVars, tsvVars, procVars, filterVars>>

\* Run, lines 168-248: p.Wait() returns; with an error Run panics, otherwise
\* the filtered chunks are built, the height and the fee are written through
\* a view that is committed and the new view is exported
EngineWait(ok) ==
    /\ epc = "wait"
    /\ epc' = IF ok THEN "store" ELSE "panicked"
    /\ UNCHANGED <<backlog, parentView, outputs, job>>
    /\ UNCHANGED <<execVars, cdmVars, tsvVars, procVars, filterVars>>

\* Run, lines 251-257: the output is stored under the height of the block;
\* its view holds that height (line 216)
EngineStore ==
    /\ epc = "store"
    /\ outputs' = Put(outputs, job.height, [view |-> [height |-> job.height]])
    /\ epc' = "advance"
    /\ UNCHANGED <<backlog, parentView, job>>
    /\ UNCHANGED <<execVars, cdmVars, tsvVars, procVars, filterVars>>

\* Run, line 258: parentView = view
EngineAdvance ==
    /\ epc = "advance"
    /\ parentView' = outputs[job.height].view
    /\ epc' = "select"
    /\ UNCHANGED <<backlog, outputs, job>>
    /\ UNCHANGED <<execVars, cdmVars, tsvVars, procVars, filterVars>>

\* Run, lines 261-262: the context is done and Run returns
EngineCtxDone ==
    /\ epc = "select"
    /\ epc' = "returned"
    /\ UNCHANGED <<backlog, parentView, outputs, job>>
    /\ UNCHANGED <<execVars, cdmVars, tsvVars, procVars, filterVars>>

EngineNext ==
    \/ \E h \in 1..MaxHeight : Execute(h)
    \/ EngineReceive
    \/ EngineChunk
    \/ EngineChunksClosed
    \/ \E ok \in BOOLEAN : EngineWait(ok)
    \/ EngineStore
    \/ EngineAdvance
    \/ EngineCtxDone

\* the heights for which an output is stored
StoredHeights == DOMAIN outputs

\* C31: a block is processed only if its height is the height of the parent
\* view plus one, otherwise Run panics without storing an output or moving
\* the parent view; the outputs are stored for consecutive, increasing
\* heights and the parent view moves to a height only once its output is
\* stored
C31_HeightDiscipline ==
    /\ [](/\ epc \in {"chunks", "wait", "store"}
             => job.height = parentView.height + 1
          /\ StoredHeights \in {(GenesisHeight + 1)..parentView.height,
                         (GenesisHeight + 1)..(parentView.height + 1)})
    /\ [][/\ epc' = "panicked" => UNCHANGED <<outputs, parentView>>
          /\ epc = "select" /\ epc' # epc /\ epc' # "returned"
             /\ Head(backlog).height # parentView.height + 1
             => epc' = "panicked"
          /\ outputs' # outputs
             => outputs' = Put(outputs, parentView.height + 1,
                               [view |-> [height |-> parentView.height + 1]])
          /\ parentView' # parentView
             => /\ parentView'.height = parentView.height + 1
                /\ parentView'.height \in StoredHeights
      ]_vars

\* the outputs of heights 1 and 2 are stored, the parent view is at height 2
\* and a block of another height than 3 made Run panic
C31_Witness ==
    /\ StoredHeights = {1, 2}
    /\ parentView.height = 2
    /\ epc = "panicked"
    /\ job.height # 3

(***************************************************************************)
(* The FilteredChunk loop of Engine.Run (lines 173-204)                    *)
(***************************************************************************)
\* the number of transactions of a chunk
MaxTxs == 3

\* chunk.Txs and the chunkResult of the same length
ChunkTxs == UNION {[1..n -> [warp : BOOLEAN]] : n \in 0..MaxTxs}
ChunkResults(n) == [1..n -> [Valid : BOOLEAN, WarpVerified : BOOLEAN]]

FilterInit ==
    /\ fpc = "idle"
    /\ fTxs = <<>>
    /\ fResults = <<>>
    /\ fj = 0
    /\ txs = <<>>
    /\ warpResults = {}
    /\ warpCount = 0

\* lines 175-183: the loop body starts for a chunk and its results
FilterStart(c, r) ==
    /\ fpc = "idle"
    /\ fpc' = "loop"
    /\ fTxs' = c
    /\ fResults' = r
    /\ UNCHANGED <<fj, txs, warpResults, warpCount>>
    /\ UNCHANGED <<execVars, cdmVars, tsvVars, procVars, engineVars>>

\* a loop that keeps every transaction
KeptAlways(j) == TRUE

\* line 185: the transaction is kept when its result is valid
Kept(j) == fResults[j].Valid

\* lines 184-196: one iteration of the loop over chunkResult
FilterTx ==
    /\ fpc = "loop"
    /\ fj < Len(fResults)
    /\ fj' = fj + 1
    /\ IF ~Kept(fj + 1)
       THEN UNCHANGED <<txs, warpResults, warpCount>>
       ELSE /\ txs' = Append(txs, fj + 1)
            /\ IF fTxs[fj + 1].warp
               THEN /\ warpResults' = IF fResults[fj + 1].WarpVerified
                                      THEN warpResults \cup {warpCount}
                                      ELSE warpResults
                    /\ warpCount' = warpCount + 1
               ELSE UNCHANGED <<warpResults, warpCount>>
    /\ UNCHANGED <<fpc, fTxs, fResults>>
    /\ UNCHANGED <<execVars, cdmVars, tsvVars, procVars, engineVars>>

\* lines 197-203: the FilteredChunk is built from txs and warpResults
FilterBuild ==
    /\ fpc = "loop"
    /\ fj = Len(fResults)
    /\ fpc' = "built"
    /\ UNCHANGED <<fTxs, fResults, fj, txs, warpResults, warpCount>>
    /\ UNCHANGED <<execVars, cdmVars, tsvVars, procVars, engineVars>>

FilterNext ==
    \/ \E c \in ChunkTxs : \E r \in ChunkResults(Len(c)) : FilterStart(c, r)
    \/ FilterTx
    \/ FilterBuild

\* the indices of the transactions with a valid result, in their order
ValidTxs ==
    SelectSeq([j \in 1..Len(fResults) |-> j], LAMBDA j : fResults[j].Valid)

\* those of them that carry a warp message
ValidWarpTxs == SelectSeq(ValidTxs, LAMBDA j : fTxs[j].warp)

\* C34: the filtered chunk holds exactly the transactions whose result is
\* valid, in their order, and bit i of WarpResults is set exactly when the
\* i-th kept transaction with a warp message had its message verified
C34_FilteredChunk ==
    fpc = "built" =>
        /\ txs = ValidTxs
        /\ warpResults = {i \in 0..(Len(ValidWarpTxs) - 1) :
                              fResults[ValidWarpTxs[i + 1]].WarpVerified}

\* a chunk of three transactions with warp messages: the first is invalid
\* (its message verified), the second valid and not verified, the third valid
\* and verified, so only bit 1 is set
C34_Witness ==
    /\ fpc = "built"
    /\ Len(fTxs) = 3 /\ \A j \in 1..3 : fTxs[j].warp
    /\ ~fResults[1].Valid /\ fResults[1].WarpVerified
    /\ fResults[2].Valid /\ ~fResults[2].WarpVerified
    /\ fResults[3].Valid /\ fResults[3].WarpVerified
    /\ txs = <<2, 3>>
    /\ warpResults = {1}

Init == ExecInit /\ CdmInit /\ TsvInit /\ ProcInit /\ EngineInit /\ FilterInit

\* the executor alone
SpecExec == Init /\ [][ExecNext]_vars

\* the chunk manager alone
SpecCDM == Init /\ [][CdmNext]_vars

\* the chunk manager's retention of chunks
SpecChunks == Init /\ [][ChunksNext]_vars
SpecPinned == Init /\ [][PinnedNext]_vars
SpecUpdate == Init /\ [][UpdateNext]_vars

\* the chunk manager's index of peers
SpecPeers == Init /\ [][PeersNext]_vars

\* the state view alone
SpecTSV == Init /\ [][TsvNext]_vars
SpecReaders == Init /\ [][ReadersNext]_vars
SpecProc == Init /\ [][ProcNext]_vars
SpecEngine == Init /\ [][EngineNext]_vars
SpecFilter == Init /\ [][FilterNext]_vars
SpecCommit == Init /\ [][CommitNext]_vars

====
